---- MODULE Spec2Model ----
(***************************************************************************)
(* Model of ChainConnector (packages/chain-connector/src/ChainConnector.ts) *)
(* the per-chain socket pool with reference counting, and of the callers   *)
(* of its public API (send, subscribe, the returned unsubscribe function). *)
(*                                                                         *)
(* Every action is one synchronous segment of the JavaScript event loop:   *)
(* the code that runs between two awaits.  The collaborators that are not  *)
(* part of the class (the chaindata provider, the WsProvider transport)    *)
(* are the environment: their answers are nondeterministic choices.        *)
(***************************************************************************)
EXTENDS Integers, Sequences, FiniteSets, TLC

\* ---------------------------------------------------------------- bounds
\* number of send/subscribe calls made on the connector
MaxCalls == 2
\* size of the domain getRandomId draws from (10^8 in the source)
IdDomain == 2
\* number of WsProvider objects constructed over a run
MaxTransports == 2
\* length of the rpc lists the directory returns in SpecOrder
MaxRpcs == 4
\* length of the url lists given to getHealthyRpc
MaxUrls == 3
\* number of hex digits in an endpoint's answer to eth_chainId
MaxHexDigits == 2

\* the chain ids the callers use
Chains == {"polkadot"}
Calls == 1..MaxCalls
Ids == 0..(IdDomain - 1)

\* ------------------------------------------------- the endpoint directory
\* what chaindataChainProvider.getChain(chainId) may resolve to: no chain,
\* or a chain whose rpcs are a list of {url, isHealthy}
Rpc(u, h) == [url |-> u, isHealthy |-> h]
NoChain == [found |-> FALSE, rpcs |-> <<>>]
Chain(rpcs) == [found |-> TRUE, rpcs |-> rpcs]
ChainValues ==
    { NoChain,
      Chain(<<>>),
      Chain(<<Rpc("A", FALSE), Rpc("B", TRUE)>>) }

\* the rpc lists of SpecOrder: every list of at most MaxRpcs endpoints, each
\* with one of four urls and a health flag
EndpointUrls == {"A", "B", "C", "D"}
Endpoints == {Rpc(u, h) : u \in EndpointUrls, h \in BOOLEAN}
RpcLists == UNION {[1..n -> Endpoints] : n \in 0..MaxRpcs}
OrderChainValues == {NoChain} \cup {Chain(l) : l \in RpcLists}

\* absent entry of a Record<ChainId, ...>, absent transport, absent user id
None == 0
NoId == -1

VARIABLES
    socketConnections,         \* #socketConnections: chain id -> transport
    socketKeepAliveIntervals,  \* #socketKeepAliveIntervals: chain id -> timer
    socketUsers,               \* #socketUsers: chain id -> array of user ids
    transports,                \* every WsProvider constructed so far
    timers,                    \* every setInterval timer created so far
    calls,                     \* the send/subscribe calls and their position
    hung,                      \* the event loop is stuck in getExclusiveRandomId
    logged,                    \* what the last step wrote to the log
    evm,                       \* the run of the EVM rpc helpers (util.ts)
    smoldot,                   \* a SmoldotProvider (SmoldotProvider.ts)
    alloc                      \* a run of the loop of getExclusiveRandomId

connectorVars == <<socketConnections, socketKeepAliveIntervals, socketUsers,
                   transports, timers, calls, hung, logged>>

vars == <<connectorVars, evm, smoldot, alloc>>

poolVars == <<socketConnections, socketKeepAliveIntervals, socketUsers,
              transports, timers>>

\* ------------------------------------------------------------ helpers
RECURSIVE IndexFrom(_, _, _)
IndexFrom(s, x, k) ==
    IF k > Len(s) THEN -1
    ELSE IF s[k] = x THEN k - 1
    ELSE IndexFrom(s, x, k + 1)

\* Array.prototype.indexOf: zero-based index of the first occurrence, or -1
indexOf(s, x) == IndexFrom(s, x, 1)

\* Array.prototype.splice(start, 1): a negative start counts from the end
splice1(s, start) ==
    LET k == IF start < 0 THEN (IF Len(s) + start < 0 THEN 0 ELSE Len(s) + start)
             ELSE start
    IN  IF k >= Len(s) THEN s
        ELSE [j \in 1..(Len(s) - 1) |-> IF j <= k THEN s[j] ELSE s[j + 1]]

Range(s) == {s[k] : k \in 1..Len(s)}

\* ------------------------------------------------------ connectChainSocket
\* line 113: if (!chain) throw
ChainMissingNever(chain) == FALSE
ChainMissing(chain) == ~chain.found

\* line 116: if (this.#socketConnections[chainId]) return ...
ExistingSocketNever(c) == FALSE
ExistingSocket(c) == socketConnections[c] # None

\* lines 121-127: healthy rpcs before unhealthy rpcs, as url lists
IsHealthy(r) == r.isHealthy
IsUnhealthyNever(r) == FALSE
IsUnhealthy(r) == ~r.isHealthy
Urls(s) == [k \in 1..Len(s) |-> s[k].url]
OrderedRpcsUnhealthyFirst(chain) ==
    Urls(SelectSeq(chain.rpcs, IsUnhealthy)) \o
    Urls(SelectSeq(chain.rpcs, IsHealthy))
OrderedRpcs(chain) ==
    Urls(SelectSeq(chain.rpcs, IsHealthy)) \o
    Urls(SelectSeq(chain.rpcs, IsUnhealthy))

\* lines 129-130: if (rpcs.length) ... else throw
NoRpcsNever(rpcs) == FALSE
NoRpcs(rpcs) == Len(rpcs) = 0

\* lines 198-204: an id that is not in the exclude list; the loop only ends
\* when the random source produces such an id
getRandomIdAny(exclude) == Ids
getExclusiveRandomId(exclude) == Ids \ Range(exclude)

\* lines 180-185: push the new id
addSocketUser(users, id) == Append(users, id)

\* new WsProvider(rpcs, autoConnectMs) at line 129: rpcs is the endpoint list
\* the transport is given, candidates remembers the chain.rpcs it was
\* computed from, disconnected records that the pool has called
\* disconnect() on the transport, isConnected is the transport's own flag
\* and probePending tells that a system_health request is in flight
NewTransport(c, chain) ==
    [chainId |-> c, candidates |-> chain.rpcs, rpcs |-> OrderedRpcs(chain),
     isReady |-> FALSE, disconnected |-> FALSE, isConnected |-> FALSE,
     probePending |-> FALSE]

\* line 70: the subscription id the transport answers to the subscribe of
\* call i; every subscription gets an id of its own
NoSubscription == <<"none", 0>>
SubscriptionId(i) == <<"subscription", i>>

\* line 85: an unsubscribe RPC, the transport it is issued on and the
\* subscription id it carries
NoRpc == [ws |-> None, subscriptionId |-> NoSubscription]
UnsubscribeRpc(w, id) == [ws |-> w, subscriptionId |-> id]

\* a call that has not been made yet
IdleCall ==
    [kind |-> "none", chainId |-> "none", chain |-> NoChain, pc |-> "idle",
     socketUserId |-> NoId,
     ws |-> None, result |-> "none", subscriptionId |-> NoSubscription,
     unsubCalls |-> "never", unsubPending |-> 0, unsubRpc |-> NoRpc,
     unsubResult |-> "none", deferred |-> "no", transportCalls |-> 0]

\* a call ends: its locals are gone, the caller sees the result or the error;
\* transportCalls keeps the number of ws.send / ws.subscribe calls it made
Finished(i, pc, result) ==
    [calls EXCEPT ![i] = [IdleCall EXCEPT !.kind = calls[i].kind,
                                          !.chainId = calls[i].chainId,
                                          !.transportCalls = calls[i].transportCalls,
                                          !.pc = pc, !.result = result]]
Throw(i, err) == Finished(i, "threw", err)
Return(i, value) == Finished(i, "returned", value)
Acquired(i, id, w) ==
    [calls EXCEPT ![i].pc = "waitForWs", ![i].chain = NoChain,
                  ![i].socketUserId = id, ![i].ws = w]

\* lines 111-160, the segment that runs once getChain has resolved
connectChainSocket(i) ==
    LET c == calls[i].chainId
        chain == calls[i].chain
    IN
    /\ ~hung
    /\ UNCHANGED <<evm, smoldot, alloc>>
    /\ calls[i].pc = "getChain"
    /\ IF ChainMissing(chain)
       THEN /\ calls' = Throw(i, "ChainNotFound")
            /\ logged' = {}
            /\ UNCHANGED <<poolVars, hung>>
       ELSE IF getExclusiveRandomId(socketUsers[c]) = {}
       THEN \* getExclusiveRandomId never returns: the event loop is blocked
            /\ hung' = TRUE
            /\ logged' = {}
            /\ UNCHANGED <<poolVars, calls>>
       ELSE \E id \in getExclusiveRandomId(socketUsers[c]) :
            /\ socketUsers' =
                 [socketUsers EXCEPT ![c] = addSocketUser(socketUsers[c], id)]
            /\ IF ExistingSocket(c)
               THEN /\ calls' = Acquired(i, id, socketConnections[c])
                    /\ logged' = {}
                    /\ UNCHANGED <<socketConnections, socketKeepAliveIntervals,
                                   transports, timers, hung>>
               ELSE IF NoRpcs(OrderedRpcs(chain))
               THEN /\ calls' = Throw(i, "NoHealthyRpcs")
                    /\ logged' = {"error:connect"}
                    /\ UNCHANGED <<socketConnections, socketKeepAliveIntervals,
                                   transports, timers, hung>>
               ELSE \E built \in (IF Len(transports) < MaxTransports
                                  THEN {TRUE, FALSE} ELSE {FALSE}) :
                    IF built
                    THEN /\ transports' =
                               Append(transports, NewTransport(c, chain))
                         /\ socketConnections' =
                               [socketConnections EXCEPT ![c] = Len(transports) + 1]
                         /\ calls' = Acquired(i, id, Len(transports) + 1)
                         /\ logged' = {}
                         /\ UNCHANGED <<socketKeepAliveIntervals, timers, hung>>
                    ELSE \* new WsProvider(...) throws
                         /\ calls' = Throw(i, "TransportConstruction")
                         /\ logged' = {"error:connect"}
                         /\ UNCHANGED <<socketConnections,
                                        socketKeepAliveIntervals, transports,
                                        timers, hung>>

\* --------------------------------------------------- disconnectChainSocket
\* line 188: if (userIndex === -1) throw
NotInListNever(userIndex) == FALSE
NotInList(userIndex) == userIndex = -1

\* lines 186-195: the array after the splice
removeSocketUserNothing(users, socketUserId) == users
removeSocketUser(users, socketUserId) ==
    splice1(users, indexOf(users, socketUserId))

\* line 165: if (this.#socketUsers[chainId].length > 0) return
UsersRemainNever(users) == FALSE
UsersRemainAlways(users) == TRUE
UsersRemain(users) == Len(users) > 0

\* line 167: if (!this.#socketConnections[chainId]) return log.warn(...)
SocketMissingNever(c) == FALSE
SocketMissing(c) == socketConnections[c] = None

\* how disconnectChainSocket(chainId, socketUserId) ends
ReleaseOutcome(c, socketUserId) ==
    IF NotInList(indexOf(socketUsers[c], socketUserId)) THEN "UserNotInList"
    ELSE IF UsersRemain(removeSocketUser(socketUsers[c], socketUserId))
    THEN "remaining"
    ELSE IF SocketMissing(c) THEN "socketNotFound"
    ELSE "disconnected"

\* clearInterval(timer): stops the timer if there is one
clearIntervalNothing(t) == timers
clearInterval(t) ==
    [k \in 1..Len(timers) |->
        IF k = t THEN [timers[k] EXCEPT !.running = FALSE] ELSE timers[k]]

\* lines 162-178; log0 is what the caller has logged in the same segment
disconnectChainSocket(c, socketUserId, log0) ==
    LET outcome == ReleaseOutcome(c, socketUserId)
        w == socketConnections[c]
    IN
    IF outcome = "UserNotInList"
    THEN /\ logged' = log0
         /\ UNCHANGED poolVars
    ELSE
    /\ socketUsers' =
         [socketUsers EXCEPT ![c] = removeSocketUser(socketUsers[c], socketUserId)]
    /\ IF outcome = "remaining"
       THEN /\ logged' = log0
            /\ UNCHANGED <<socketConnections, socketKeepAliveIntervals,
                           transports, timers>>
       ELSE IF outcome = "socketNotFound"
       THEN /\ logged' = log0 \cup {"warn:socketNotFound"}
            /\ UNCHANGED <<socketConnections, socketKeepAliveIntervals,
                           transports, timers>>
       ELSE \* lines 170-177
            /\ IF w = None
               THEN \* calling disconnect on undefined throws inside the try
                    /\ logged' = log0 \cup {"warn:disconnect"}
                    /\ UNCHANGED transports
               ELSE \E thrown \in BOOLEAN :
                    /\ logged' = IF thrown THEN log0 \cup {"warn:disconnect"}
                                 ELSE log0
                    /\ transports' =
                         [transports EXCEPT ![w].disconnected = TRUE]
            /\ socketConnections' = [socketConnections EXCEPT ![c] = None]
            /\ timers' = clearInterval(socketKeepAliveIntervals[c])
            /\ socketKeepAliveIntervals' =
                 [socketKeepAliveIntervals EXCEPT ![c] = None]

\* ------------------------------------------------------------------- send
\* a caller invokes send or subscribe: lines 34/63 and 112 start the directory
\* lookup; chain is what the directory holds for the chain id and will
\* resolve getChain with
StartCall(i, kind, c, chain) ==
    /\ ~hung
    /\ UNCHANGED <<evm, smoldot, alloc>>
    /\ calls[i].pc = "idle"
    /\ \A j \in Calls : j < i => calls[j].pc # "idle"
    /\ calls' = [calls EXCEPT ![i].kind = kind, ![i].chainId = c,
                              ![i].chain = chain, ![i].pc = "getChain"]
    /\ logged' = {}
    /\ UNCHANGED <<poolVars, hung>>

Send(i, c, chain) == StartCall(i, "send", c, chain)

\* lines 95-104: Promise.race([ws.isReady, timer]) settles when the transport
\* is ready or when the timer of 15 s (line 39) or 30 s (line 66) has elapsed
RaceSettledReadyOnly(w, timerElapsed) == transports[w].isReady
RaceSettled(w, timerElapsed) == transports[w].isReady \/ timerElapsed

\* lines 39/66 and 43/70: the race is over and the caller issues the
\* transport call
waitForWs(i) ==
    /\ ~hung
    /\ UNCHANGED <<evm, smoldot, alloc>>
    /\ calls[i].pc = "waitForWs"
    /\ \E timerElapsed \in BOOLEAN : RaceSettled(calls[i].ws, timerElapsed)
    /\ calls' = [calls EXCEPT
                   ![i].pc = IF calls[i].kind = "send" THEN "wsSend"
                             ELSE "wsSubscribe",
                   ![i].transportCalls = @ + 1]
    /\ logged' = {}
    /\ UNCHANGED <<poolVars, hung>>

\* lines 43, 50-52: ws.send resolved; a response only comes over a socket
\* that has connected, which is when isReady resolves
SendResolved(i) ==
    LET c == calls[i].chainId
        id == calls[i].socketUserId
    IN
    /\ ~hung
    /\ UNCHANGED <<evm, smoldot, alloc>>
    /\ calls[i].pc = "wsSend"
    /\ transports[calls[i].ws].isReady
    /\ disconnectChainSocket(c, id, {})
    /\ calls' = IF ReleaseOutcome(c, id) = "UserNotInList"
                THEN Throw(i, "UserNotInList")
                ELSE Return(i, "response")
    /\ UNCHANGED hung

\* a send that calls ws.send a second time when the first call has rejected
SendRejectedRetries(i) ==
    /\ ~hung
    /\ UNCHANGED <<evm, smoldot, alloc>>
    /\ calls[i].pc = "wsSend"
    /\ calls[i].transportCalls < 2
    /\ calls' = [calls EXCEPT ![i].transportCalls = @ + 1]
    /\ logged' = {"error:send"}
    /\ UNCHANGED <<poolVars, hung>>

\* lines 44-48: ws.send rejected
SendRejected(i) ==
    LET c == calls[i].chainId
        id == calls[i].socketUserId
    IN
    /\ ~hung
    /\ UNCHANGED <<evm, smoldot, alloc>>
    /\ calls[i].pc = "wsSend"
    /\ disconnectChainSocket(c, id, {"error:send"})
    /\ calls' = IF ReleaseOutcome(c, id) = "UserNotInList"
                THEN Throw(i, "UserNotInList")
                ELSE Throw(i, "TransportError")
    /\ UNCHANGED hung

\* -------------------------------------------------------------- subscribe
Subscribe(i, c, chain) == StartCall(i, "subscribe", c, chain)

\* lines 70, 76-89: ws.subscribe resolved, the unsubscribe function is returned
SubscribeResolved(i) ==
    /\ ~hung
    /\ UNCHANGED <<evm, smoldot, alloc>>
    /\ calls[i].pc = "wsSubscribe"
    /\ transports[calls[i].ws].isReady
    /\ calls' = [calls EXCEPT ![i].pc = "subscribed",
                              ![i].subscriptionId = SubscriptionId(i),
                              ![i].result = "unsubscribe"]
    /\ logged' = {}
    /\ UNCHANGED <<poolVars, hung>>

\* lines 71-74: ws.subscribe rejected
SubscribeRejected(i) ==
    LET c == calls[i].chainId
        id == calls[i].socketUserId
    IN
    /\ ~hung
    /\ UNCHANGED <<evm, smoldot, alloc>>
    /\ calls[i].pc = "wsSubscribe"
    /\ disconnectChainSocket(c, id, {})
    /\ calls' = IF ReleaseOutcome(c, id) = "UserNotInList"
                THEN Throw(i, "UserNotInList")
                ELSE Throw(i, "TransportError")
    /\ UNCHANGED hung

\* lines 76-89: subscribe returns the unsubscribe function once ws.subscribe
\* has resolved. line 85: the caller invokes it, which
\* issues ws.unsubscribe on the ws of its closure; again tells whether callers
\* invoke it a second time
UnsubscribeReturnedEarly(i) == calls[i].pc \in {"wsSubscribe", "subscribed"}
UnsubscribeReturned(i) == calls[i].pc = "subscribed"

UnsubscribeInvoked(i, again) ==
    /\ ~hung
    /\ UnsubscribeReturned(i)
    /\ \/ calls[i].unsubCalls = "never"
       \/ again /\ calls[i].unsubCalls = "once"

UnsubscribeIssued(i) ==
    [calls EXCEPT
        ![i].unsubCalls = IF @ = "never" THEN "once" ELSE "twice",
        ![i].unsubPending = @ + 1,
        ![i].unsubRpc = UnsubscribeRpc(calls[i].ws, calls[i].subscriptionId)]

\* the closure with lines 85 and 86 exchanged: the release comes first
UnsubscribeReleasesFirst(i, again) ==
    /\ UnsubscribeInvoked(i, again)
    /\ UNCHANGED <<evm, smoldot, alloc>>
    /\ disconnectChainSocket(calls[i].chainId, calls[i].socketUserId, {})
    /\ calls' = UnsubscribeIssued(i)
    /\ UNCHANGED hung

Unsubscribe(i, again) ==
    /\ UnsubscribeInvoked(i, again)
    /\ UNCHANGED <<evm, smoldot, alloc>>
    /\ calls' = UnsubscribeIssued(i)
    /\ logged' = {}
    /\ UNCHANGED <<poolVars, hung>>

\* line 86: ws.unsubscribe resolved
UnsubscribeResolved(i) ==
    LET c == calls[i].chainId
        id == calls[i].socketUserId
    IN
    /\ ~hung
    /\ UNCHANGED <<evm, smoldot, alloc>>
    /\ calls[i].unsubPending > 0
    /\ disconnectChainSocket(c, id, {})
    /\ calls' = [calls EXCEPT ![i].unsubPending = @ - 1,
                              ![i].unsubResult =
                                 IF ReleaseOutcome(c, id) = "UserNotInList"
                                 THEN "UserNotInList" ELSE "done"]
    /\ UNCHANGED hung

\* line 85: ws.unsubscribe rejected, line 86 is never reached
UnsubscribeRejected(i) ==
    /\ ~hung
    /\ UNCHANGED <<evm, smoldot, alloc>>
    /\ calls[i].unsubPending > 0
    /\ calls' = [calls EXCEPT ![i].unsubPending = @ - 1,
                              ![i].unsubResult = "TransportError"]
    /\ logged' = {}
    /\ UNCHANGED <<poolVars, hung>>

\* ------------------------------------- SubNativeModule.subscribeBalances
\* part_000 lines 255-308: one subscribe call per token is started in the same
\* synchronous segment; chains gives the directory's answer to each
subscribeBalances(chains) ==
    /\ ~hung
    /\ UNCHANGED <<evm, smoldot, alloc>>
    /\ \A i \in Calls : calls[i].pc = "idle"
    /\ calls' = [i \in Calls |->
                    [calls[i] EXCEPT !.kind = "subscribe",
                                     !.chainId = CHOOSE c \in Chains : TRUE,
                                     !.chain = chains[i], !.pc = "getChain"]]
    /\ logged' = {}
    /\ UNCHANGED <<poolVars, hung>>

\* a subscription promise of subscribeBalances that has not settled into the
\* no-op of line 305-308
Pending(i) == calls[i].pc \notin {"idle", "threw", "returned"}

\* part_000 line 310: the function subscribeBalances returned is invoked; it
\* chains a then on every subscription promise
unsubscribeBalances ==
    /\ ~hung
    /\ UNCHANGED <<evm, smoldot, alloc>>
    /\ \E i \in Calls : Pending(i)
    /\ \A i \in Calls : calls[i].deferred = "no"
    /\ calls' = [i \in Calls |->
                    IF Pending(i)
                    THEN [calls[i] EXCEPT !.deferred =
                            IF calls[i].pc = "subscribed" THEN "late" ELSE "early"]
                    ELSE calls[i]]
    /\ logged' = {}
    /\ UNCHANGED <<poolVars, hung>>

\* part_000 line 310: promise.then((unsubscribe) => unsubscribe()) runs for a
\* subscription promise that has resolved to the connector's function
DeferredUnsubscribe(i) ==
    /\ calls[i].deferred # "no"
    /\ Unsubscribe(i, FALSE)

\* ------------------------------------------------------------ environment
\* lines 137-157: the transport signals ready and the detached keepalive
\* setup, which awaits isReady since the construction, installs the timer
NewTimer(c) == [chainId |-> c, running |-> TRUE]

WsReady(w) ==
    LET c == transports[w].chainId IN
    /\ ~hung
    /\ UNCHANGED <<evm, smoldot, alloc>>
    /\ w \in 1..Len(transports)
    /\ ~transports[w].isReady
    /\ transports' = [transports EXCEPT ![w].isReady = TRUE,
                                         ![w].isConnected = TRUE]
    /\ timers' = Append(clearInterval(socketKeepAliveIntervals[c]), NewTimer(c))
    /\ socketKeepAliveIntervals' =
         [socketKeepAliveIntervals EXCEPT ![c] = Len(timers) + 1]
    /\ logged' = {}
    /\ UNCHANGED <<socketConnections, socketUsers, calls, hung>>

\* ---------------------------------------------------------- keepalive tick
\* line 150: the isConnected getter of the stored transport
IsConnectedAlways(w) == TRUE
IsConnected(w) == transports[w].isConnected

\* lines 146-156: timer t fires; the probe is sent on the transport that the
\* pool holds for the timer's chain at that moment
KeepAliveTick(t) ==
    LET c == timers[t].chainId
        w == socketConnections[c]
    IN
    /\ ~hung
    /\ UNCHANGED <<evm, smoldot, alloc>>
    /\ timers[t].running
    /\ IF w = None
       THEN /\ logged' = {"warn:healthcheckNoWs"}
            /\ UNCHANGED transports
       ELSE IF ~IsConnected(w)
       THEN /\ logged' = {"warn:healthcheckNotConnected"}
            /\ UNCHANGED transports
       ELSE /\ transports' = [transports EXCEPT ![w].probePending = TRUE]
            /\ logged' = {}
    /\ UNCHANGED <<socketConnections, socketKeepAliveIntervals, socketUsers,
                   timers, calls, hung>>

\* line 154: the system_health request resolved
ProbeResolved(w) ==
    /\ ~hung
    /\ UNCHANGED <<evm, smoldot, alloc>>
    /\ transports[w].probePending
    /\ transports' = [transports EXCEPT ![w].probePending = FALSE]
    /\ logged' = {}
    /\ UNCHANGED <<socketConnections, socketKeepAliveIntervals, socketUsers,
                   timers, calls, hung>>

\* line 155: the system_health request rejected, the catch logs a warning
ProbeRejected(w) ==
    /\ ~hung
    /\ UNCHANGED <<evm, smoldot, alloc>>
    /\ transports[w].probePending
    /\ transports' = [transports EXCEPT ![w].probePending = FALSE]
    /\ logged' = {"warn:keepalive"}
    /\ UNCHANGED <<socketConnections, socketKeepAliveIntervals, socketUsers,
                   timers, calls, hung>>

\* the socket of a transport the pool holds drops, and the transport connects
\* again (it retries by itself until disconnect() is called on it)
ConnectionLost(w) ==
    /\ ~hung
    /\ UNCHANGED <<evm, smoldot, alloc>>
    /\ transports[w].isConnected
    /\ ~transports[w].disconnected
    /\ transports' = [transports EXCEPT ![w].isConnected = FALSE]
    /\ logged' = {}
    /\ UNCHANGED <<socketConnections, socketKeepAliveIntervals, socketUsers,
                   timers, calls, hung>>

Reconnected(w) ==
    /\ ~hung
    /\ UNCHANGED <<evm, smoldot, alloc>>
    /\ transports[w].isReady
    /\ ~transports[w].isConnected
    /\ ~transports[w].disconnected
    /\ transports' = [transports EXCEPT ![w].isConnected = TRUE]
    /\ logged' = {}
    /\ UNCHANGED <<socketConnections, socketKeepAliveIntervals, socketUsers,
                   timers, calls, hung>>

\* ------------------------------------------------ EVM rpc helpers (util.ts)
\* the urls and chain ids the helpers are called with
RpcUrls == {"u1", "u2", "u3"}
UrlLists == UNION {[1..n -> RpcUrls] : n \in 0..MaxUrls}
ChainIds == {5, 16}

\* what an endpoint does with the eth_chainId request of one probe: it
\* answers a hex string before or after RPC_HEALTHCHECK_TIMEOUT, the request
\* fails, or nothing ever comes back
AnswerDigits == {"0", "1", "5", "a"}
HexStrings ==
    UNION {{<<"0", "x">> \o d : d \in [1..n -> AnswerDigits]} : n \in 0..MaxHexDigits}
Answer(hex, inTime) == [kind |-> "answer", hex |-> hex, inTime |-> inTime]
NetworkError == [kind |-> "error", hex |-> <<>>, inTime |-> TRUE]
NoAnswer == [kind |-> "silent", hex |-> <<>>, inTime |-> FALSE]
NoResponse == [kind |-> "none", hex |-> <<>>, inTime |-> FALSE]
Responses ==
    {Answer(h, t) : h \in HexStrings, t \in BOOLEAN} \cup {NetworkError, NoAnswer}

\* parseInt(string, radix): an optional 0x prefix when the radix is 16, then
\* the longest run of digits of the radix; NaN when that run is empty
NaN == -1
Digits == <<"0", "1", "2", "3", "4", "5", "6", "7", "8", "9",
            "a", "b", "c", "d", "e", "f">>
DigitValue(ch) == indexOf(Digits, ch)
IsDigit(ch, radix) == DigitValue(ch) >= 0 /\ DigitValue(ch) < radix
HasHexPrefix(s) == Len(s) >= 2 /\ s[1] = "0" /\ s[2] \in {"x", "X"}
RECURSIVE ParseDigits(_, _, _, _)
ParseDigits(s, k, radix, acc) ==
    IF k <= Len(s) /\ IsDigit(s[k], radix)
    THEN ParseDigits(s, k + 1, radix, acc * radix + DigitValue(s[k]))
    ELSE acc
parseInt(s, radix) ==
    LET from == IF radix = 16 /\ HasHexPrefix(s) THEN 3 ELSE 1
    IN IF from <= Len(s) /\ IsDigit(s[from], radix)
       THEN ParseDigits(s, from, radix, 0)
       ELSE NaN

\* line 37: parseInt(rpcChainId, 16)
ParseChainIdDecimal(rpcChainId) == parseInt(rpcChainId, 10)
ParseChainId(rpcChainId) == parseInt(rpcChainId, 16)

\* lines 31-34: Promise.race of the request against throwAfter
RaceOutcome(resp) ==
    IF resp.kind = "answer" /\ resp.inTime
    THEN [rejected |-> FALSE, value |-> resp.hex]
    ELSE [rejected |-> TRUE, value |-> <<>>]

\* lines 23-37, the body of the try, and lines 38-41, the catch
TryProbe(resp, chainId) ==
    LET o == RaceOutcome(resp)
    IN IF o.rejected
       THEN [threw |-> TRUE, value |-> FALSE]
       ELSE [threw |-> FALSE, value |-> ParseChainId(o.value) = chainId]
CatchProbe(o) == IF o.threw THEN [threw |-> FALSE, value |-> FALSE] ELSE o
isHealthyRpc(resp, chainId) == CatchProbe(TryProbe(resp, chainId))

\* lines 70-77: the error values the providers may catch, and their
\* classification; a string has no reason property
NoReason == "undefined"
Reasons == {"processing response error", "Processing Response Error",
            "timeout", "bad response", ""}
Errors ==
    {[type |-> "object", reason |-> r] : r \in Reasons \cup {NoReason}} \cup
    {[type |-> "string", reason |-> NoReason]}
NoError == [type |-> "none", reason |-> NoReason]
AllowedReasons == {"processing response error"}
isUnhealthyRpcErrorAlways(err) == TRUE
isUnhealthyRpcError(err) == ~(err.reason \in AllowedReasons)

\* the url the k-th turn of the loop at line 45 probes
LoopUrlBackwards(rpcUrls, k) == rpcUrls[Len(rpcUrls) + 1 - k]
LoopUrl(rpcUrls, k) == rpcUrls[k]

NoUrl == "null"
EvmIdle ==
    [pc |-> "idle", rpcUrls |-> <<>>, chainId |-> 0, index |-> 0,
     probed |-> <<>>, response |-> NoResponse, result |-> NoUrl,
     err |-> NoError, unhealthy |-> FALSE,
     provider |-> "none", emitted |-> <<>>, thrown |-> NoError,
     value |-> "undefined"]

\* line 44: getHealthyRpc(rpcUrls, network) is called
getHealthyRpc(rpcUrls, chainId) ==
    /\ evm.pc = "idle"
    /\ evm' = [evm EXCEPT !.pc = "loop", !.rpcUrls = rpcUrls,
                          !.chainId = chainId, !.index = 1]
    /\ UNCHANGED <<connectorVars, smoldot, alloc>>

\* lines 22-42: the probe of the next url of the loop settles; isHealthyRpc
\* resolves to a boolean or, if it let an exception through, rejects
ProbeSettled(resp) ==
    LET url == LoopUrl(evm.rpcUrls, evm.index)
        o == isHealthyRpc(resp, evm.chainId)
    IN
    /\ evm.pc = "loop"
    /\ evm.index <= Len(evm.rpcUrls)
    /\ evm' = [evm EXCEPT
                 !.response = resp,
                 !.probed = Append(@, [url |-> url, healthy |-> ~o.threw /\ o.value]),
                 !.pc = IF o.threw THEN "threw" ELSE "probed"]
    /\ UNCHANGED <<connectorVars, smoldot, alloc>>

\* a loop that probes every url and does not stop at the first healthy one
LoopContinuesToEnd ==
    /\ evm.pc = "probed"
    /\ evm' = [evm EXCEPT !.pc = "loop", !.index = @ + 1,
                          !.response = NoResponse]
    /\ UNCHANGED <<connectorVars, smoldot, alloc>>

\* line 45: the loop goes on after the await: return the url if its probe
\* was healthy, otherwise turn to the next url
LoopContinues ==
    LET last == evm.probed[Len(evm.probed)] IN
    /\ evm.pc = "probed"
    /\ evm' = IF last.healthy
              THEN [evm EXCEPT !.pc = "returned", !.result = last.url]
              ELSE [evm EXCEPT !.pc = "loop", !.index = @ + 1,
                               !.response = NoResponse]
    /\ UNCHANGED <<connectorVars, smoldot, alloc>>

\* line 67: every url has been probed, return null
ReturnNull ==
    /\ evm.pc = "loop"
    /\ evm.index > Len(evm.rpcUrls)
    /\ evm' = [evm EXCEPT !.pc = "returned", !.result = NoUrl]
    /\ UNCHANGED <<connectorVars, smoldot, alloc>>

\* lines 85 and 97: a provider classifies the error it has caught
ClassifyError(err) ==
    /\ evm.pc = "idle"
    /\ evm' = [evm EXCEPT !.pc = "classified", !.err = err,
                          !.unhealthy = isUnhealthyRpcError(err)]
    /\ UNCHANGED <<connectorVars, smoldot, alloc>>

\* ------------------------------------------------------- SmoldotProvider
\* src/unnamed/part_003, lines 58-438.  The provider's work between two
\* events of the event loop is one step: the continuation of an await, of a
\* then or of a finally is queued in micro, and no call, response, health
\* report or timer is taken while micro is not empty.
\* the bound on the work of a run: the chains added and the request ids
\* drawn, taken together
MaxWork == 4

\* lines 86-97: the Map of subscribe method -> unsubscribe method
subscriptionUnsubscriptionMethods ==
    {<<"author_submitAndWatchExtrinsic", "author_unwatchExtrinsic">>,
     <<"chain_subscribeAllHeads", "chain_unsubscribeAllHeads">>,
     <<"chain_subscribeFinalizedHeads", "chain_unsubscribeFinalizedHeads">>,
     <<"chain_subscribeFinalisedHeads", "chain_subscribeFinalisedHeads">>,
     <<"chain_subscribeNewHeads", "chain_unsubscribeNewHeads">>,
     <<"chain_subscribeNewHead", "chain_unsubscribeNewHead">>,
     <<"chain_subscribeRuntimeVersion", "chain_unsubscribeRuntimeVersion">>,
     <<"subscribe_newHead", "unsubscribe_newHead">>,
     <<"state_subscribeRuntimeVersion", "state_unsubscribeRuntimeVersion">>,
     <<"state_subscribeStorage", "state_unsubscribeStorage">>}
\* line 397: subscriptionUnsubscriptionMethods.has(method)
SubscribeMethods == {p[1] : p \in subscriptionUnsubscriptionMethods}
\* line 412: subscriptionUnsubscriptionMethods.get(method)
UnsubscribeMethodOf(method) ==
    (CHOOSE p \in subscriptionUnsubscriptionMethods : p[1] = method)[2]

\* the calls the callers of the provider make
SubscribeCalls ==
    {<<"chain_newHead", "chain_subscribeNewHeads">>,
     <<"chain_finalizedHead", "chain_subscribeFinalisedHeads">>,
     <<"state_storage", "state_getStorage">>}
UnsubscribeCalls ==
    {<<"chain_newHead", "chain_unsubscribeNewHeads">>,
     <<"chain_finalizedHead", "chain_unsubscribeFinalisedHeads">>}

\* the messages of the errors the provider throws
NotConnected == "Provider is not connected"
Disconnected == "Disconnected"
NoActiveSubscription == "Unable to find active subscription"

\* lines 102-111: a provider after its constructor.  chain is #chain (0 for
\* null, g for the promise of the g-th addChain), chains the chains added so
\* far with the closures of lines 180-302, sends the send calls that drew a
\* request id (the id is the position), requests the keys of #requests,
\* subscriptions the entries of #subscriptions in insertion order
SmoldotIdle ==
    [chain |-> 0, isChainReady |-> FALSE, chains |-> <<>>,
     requests |-> {}, sends |-> <<>>, subscriptions |-> <<>>,
     callbacks |-> {}, unsubscribed |-> {}, dropped |-> <<>>,
     micro |-> <<>>, waiting |-> <<>>, last |-> "none"]

\* the continuations the event loop has yet to run
KillTask(g) ==
    [task |-> "kill", kind |-> "kill", type |-> "", method |-> "",
     param |-> 0, chain |-> 0, closure |-> g]
SendTask(kind, type, method, param, g, closure) ==
    [task |-> "send", kind |-> kind, type |-> type, method |-> method,
     param |-> param, chain |-> g, closure |-> closure]
Quiescent == smoldot.micro = <<>>

\* lines 126-128
SmoldotIsConnected(s) == s.chain # 0 /\ s.isChainReady

\* the key `${type}::${id}` of #subscriptions (lines 204, 402, 428)
SubscriptionKey(type, id) == <<type, id>>
SubscriptionKeys(s) ==
    {SubscriptionKey(x.type, x.id) : x \in Range(s.subscriptions)}

\* a finally block that forgets to delete the request
SettleKeepsEntry(s, id, ok, result, error) ==
    LET c == s.sends[id]
        s1 == [s EXCEPT !.sends[id].state =
                            IF ok THEN "resolved" ELSE "rejected",
                        !.sends[id].result = result,
                        !.sends[id].error = error]
    IN  CASE c.kind = "subscribe" /\ ok ->
                [s1 EXCEPT !.subscriptions =
                    Append(@, [type |-> c.type, id |-> result,
                               unsubscribeMethod |->
                                   UnsubscribeMethodOf(c.method)])]
          [] c.kind = "kill" /\ ~c.raced ->
                [s1 EXCEPT !.micro = Append(@, KillTask(c.closure))]
          [] OTHER -> s1

\* lines 365-367 and 382-388: the callback of request id is called: the
\* promise of the send settles and its finally deletes the request; then the
\* caller's continuation runs: subscribe stores the subscription (lines
\* 402-418), killStaleSubscriptions is queued again (lines 258-263)
Settle(s, id, ok, result, error) ==
    LET c == s.sends[id]
        s1 == [s EXCEPT !.sends[id].state =
                            IF ok THEN "resolved" ELSE "rejected",
                        !.sends[id].result = result,
                        !.sends[id].error = error,
                        !.requests = @ \ {id}]
    IN  CASE c.kind = "subscribe" /\ ok ->
                [s1 EXCEPT !.subscriptions =
                    Append(@, [type |-> c.type, id |-> result,
                               unsubscribeMethod |->
                                   UnsubscribeMethodOf(c.method)])]
          [] c.kind = "kill" /\ ~c.raced ->
                [s1 EXCEPT !.micro = Append(@, KillTask(c.closure))]
          [] OTHER -> s1

\* line 235: every callback of #requests is called with the error, in the
\* order of insertion
RECURSIVE RejectAll(_, _)
RejectAll(s, ids) ==
    IF ids = {} THEN s
    ELSE LET id == CHOOSE x \in ids : \A y \in ids : x <= y
         IN  RejectAll(IF s.sends[id].state = "in flight"
                       THEN Settle(s, id, FALSE, 0, Disconnected)
                       ELSE s,
                       ids \ {id})

\* lines 230-238
cleanup(s) ==
    LET r == RejectAll(s, s.requests)
    IN  [r EXCEPT
           !.callbacks = @ \cup
               {<<x.type, x.id, Disconnected,
                  SubscriptionKey(x.type, x.id) \in s.unsubscribed>> :
                    x \in Range(s.subscriptions)},
           !.subscriptions = <<>>]

\* lines 306-310: remove() of the chain object the promise resolves to; the
\* chain's own remove throws if the chain was removed before, which the
\* callers catch (lines 334-336, 374-376)
remove(s, g) ==
    LET s1 == [s EXCEPT !.chains[g].hc = "stopped",
                        !.chains[g].health = "none"]
    IN  IF s.chains[g].state = "removed" THEN s1
        ELSE cleanup([s1 EXCEPT !.chains[g].state = "removed"])

\* lines 362-380: the send that has its chain draws the next id, stores its
\* callback and hands the request to the chain; if sendJsonRpc throws, which
\* it does on a removed chain, #chain is set to null and the chain removed
DoSend(s, call, throws) ==
    LET id == Len(s.sends) + 1
        g == call.chain
        fails == throws \/ s.chains[g].state = "removed"
        s1 == [s EXCEPT
                 !.requests = @ \cup {id},
                 !.sends = Append(@,
                     [kind |-> call.kind, type |-> call.type,
                      method |-> call.method, param |-> call.param,
                      chain |-> g, closure |-> call.closure,
                      onWire |-> ~fails, state |-> "in flight",
                      result |-> 0, error |-> "none", raced |-> FALSE])]
    IN  IF fails THEN remove([s1 EXCEPT !.chain = 0], g) ELSE s1

\* lines 357-361: send() is called on a connected provider and awaits #chain
CallSend(s, kind, type, method, param, closure) ==
    LET t == SendTask(kind, type, method, param, s.chain, closure)
    IN  IF s.chains[s.chain].state = "pending"
        THEN [s EXCEPT !.waiting = Append(@, t)]
        ELSE [s EXCEPT !.micro = Append(@, t)]

\* the work done and the work the queued continuations may still do
Capacity ==
    Len(smoldot.chains) + Len(smoldot.sends) + Len(smoldot.waiting)
        + Len(smoldot.micro) < MaxWork

\* the provider as a step finds it: callbacks and last tell what the step
\* itself called and threw, so what the step before left there is dropped
Quiet == [smoldot EXCEPT !.last = "none", !.callbacks = {}]

\* lines 141-224: connect()
SmoldotConnect ==
    /\ Quiescent
    /\ IF SmoldotIsConnected(smoldot)
       THEN smoldot' = [Quiet EXCEPT
                          !.last = "Already connected"]
       ELSE IF smoldot.chain # 0
       THEN smoldot' = [Quiet EXCEPT !.last = "none"]
       ELSE /\ Capacity
            /\ smoldot' = [Quiet EXCEPT
                             !.chain = Len(smoldot.chains) + 1,
                             !.chains = Append(@,
                                 [state |-> "pending", hc |-> "idle",
                                  health |-> "none", stale |-> <<>>]),
                             !.last = "none"]
    /\ UNCHANGED <<connectorVars, evm, alloc>>

\* lines 225-228, 266, 304-313: addChain resolved with chain g; the calls
\* that await the promise go on after the then callback
AddChainResolved(g) ==
    /\ Quiescent
    /\ g \in 1..Len(smoldot.chains)
    /\ smoldot.chains[g].state = "pending"
    /\ smoldot' = [Quiet EXCEPT
                     !.chains[g].state = "resolved",
                     !.chains[g].hc = "running",
                     !.isChainReady = FALSE,
                     !.micro = SelectSeq(smoldot.waiting,
                                         LAMBDA t : t.chain = g),
                     !.waiting = SelectSeq(@, LAMBDA t : t.chain # g)]
    /\ UNCHANGED <<connectorVars, evm, alloc>>

\* lines 315-321: addChain rejected; the sends that await the promise reject
\* and a killStaleSubscriptions among them goes on (lines 259-263)
AddChainRejected(g) ==
    LET mine == SelectSeq(smoldot.waiting,
                          LAMBDA t : t.chain = g /\ t.kind = "kill")
    IN
    /\ Quiescent
    /\ g \in 1..Len(smoldot.chains)
    /\ smoldot.chains[g].state = "pending"
    /\ smoldot' = [Quiet EXCEPT
                     !.chains[g].state = "rejected",
                     !.chain = 0,
                     !.dropped = @ \o [k \in 1..Len(mine) |->
                                   [unsubscribeMethod |-> mine[k].method,
                                    id |-> mine[k].param,
                                    chain |-> mine[k].closure]],
                     !.micro = [k \in 1..Len(mine) |->
                                   KillTask(mine[k].closure)],
                     !.waiting = SelectSeq(@, LAMBDA t : t.chain # g)]
    /\ UNCHANGED <<connectorVars, evm, alloc>>

\* lines 266-302: the health checker of chain g reports
Health(g, isReady) ==
    LET s0 == [Quiet EXCEPT
                 !.chains[g].health = IF isReady THEN "ready" ELSE "syncing"]
        s1 == [s0 EXCEPT !.isChainReady = isReady]
    IN
    /\ Quiescent
    /\ g \in 1..Len(smoldot.chains)
    /\ smoldot.chains[g].hc = "running"
    /\ smoldot' =
          IF smoldot.isChainReady = isReady THEN s0
          ELSE IF ~isReady
          THEN cleanup([s1 EXCEPT
                  !.chains[g].stale = @ \o
                      [k \in 1..Len(s1.subscriptions) |->
                          [unsubscribeMethod |->
                               s1.subscriptions[k].unsubscribeMethod,
                           id |-> s1.subscriptions[k].id]]])
          ELSE [s1 EXCEPT !.micro = Append(@, KillTask(g))]
    /\ UNCHANGED <<connectorVars, evm, alloc>>

\* lines 245-264: killStaleSubscriptions of chain g pops the last stale
\* subscription and sends its unsubscribe; a send that throws is caught and
\* the next stale subscription is taken
KillStaleSubscriptions ==
    LET t == Head(smoldot.micro)
        g == t.closure
        s0 == [Quiet EXCEPT !.micro = Tail(@)]
        n == Len(smoldot.chains[g].stale)
        stale == smoldot.chains[g].stale[n]
        s1 == [s0 EXCEPT !.chains[g].stale = SubSeq(@, 1, n - 1)]
    IN
    /\ ~Quiescent
    /\ t.task = "kill"
    /\ smoldot' =
          IF n = 0 THEN s0
          ELSE IF ~SmoldotIsConnected(s1)
          THEN [s1 EXCEPT !.dropped = Append(@,
                              [unsubscribeMethod |-> stale.unsubscribeMethod,
                               id |-> stale.id, chain |-> g]),
                          !.micro = Append(@, KillTask(g))]
          ELSE CallSend(s1, "kill", "", stale.unsubscribeMethod,
                        stale.id, g)
    /\ UNCHANGED <<connectorVars, evm, alloc>>

\* lines 361-380: a send goes on after its await of #chain
SendContinues(throws) ==
    LET t == Head(smoldot.micro)
    IN
    /\ ~Quiescent
    /\ t.task = "send"
    /\ Len(smoldot.chains) + Len(smoldot.sends) < MaxWork
    /\ smoldot' = DoSend([Quiet EXCEPT !.micro = Tail(@)], t, throws)
    /\ UNCHANGED <<connectorVars, evm, alloc>>

\* lines 356-359: send(method, params) is called
SmoldotSend(method) ==
    /\ Quiescent
    /\ SmoldotIsConnected(smoldot) => Capacity
    /\ smoldot' =
          IF ~SmoldotIsConnected(smoldot)
          THEN [Quiet EXCEPT !.last = NotConnected]
          ELSE CallSend([Quiet EXCEPT !.last = "none"],
                        "send", "", method, 0, 0)
    /\ UNCHANGED <<connectorVars, evm, alloc>>

\* lines 391-401: subscribe(type, method, params, callback) is called
SmoldotSubscribe(type, method) ==
    /\ Quiescent
    /\ SmoldotIsConnected(smoldot) => Capacity
    /\ smoldot' =
          IF method \notin SubscribeMethods
          THEN [Quiet EXCEPT !.last = "Unsupported subscribe method"]
          ELSE IF ~SmoldotIsConnected(smoldot)
          THEN [Quiet EXCEPT !.last = NotConnected]
          ELSE CallSend([Quiet EXCEPT
                           !.last = "none"],
                        "subscribe", type, method, 0, 0)
    /\ UNCHANGED <<connectorVars, evm, alloc>>

\* an unsubscribe that leaves the subscription in the table
UnsubscribeKeepsEntry(type, method, id) ==
    LET key == SubscriptionKey(type, id)
    IN
    /\ Quiescent
    /\ SmoldotIsConnected(smoldot) /\ key \in SubscriptionKeys(smoldot)
          => Capacity
    /\ smoldot' =
          IF ~SmoldotIsConnected(smoldot)
          THEN [Quiet EXCEPT !.last = NotConnected]
          ELSE IF key \notin SubscriptionKeys(smoldot)
          THEN [Quiet EXCEPT
                  !.last = NoActiveSubscription]
          ELSE CallSend([Quiet EXCEPT
                           !.last = "none",
                           !.unsubscribed = @ \cup {key}],
                        "unsubscribe", type, method, id, 0)
    /\ UNCHANGED <<connectorVars, evm, alloc>>

\* lines 423-437: unsubscribe(type, method, id) is called
SmoldotUnsubscribe(type, method, id) ==
    LET key == SubscriptionKey(type, id)
    IN
    /\ Quiescent
    /\ SmoldotIsConnected(smoldot) /\ key \in SubscriptionKeys(smoldot)
          => Capacity
    /\ smoldot' =
          IF ~SmoldotIsConnected(smoldot)
          THEN [Quiet EXCEPT !.last = NotConnected]
          ELSE IF key \notin SubscriptionKeys(smoldot)
          THEN [Quiet EXCEPT
                  !.last = NoActiveSubscription]
          ELSE CallSend([Quiet EXCEPT
                           !.last = "none",
                           !.unsubscribed = @ \cup {key},
                           !.subscriptions = SelectSeq(@,
                               LAMBDA x :
                                   SubscriptionKey(x.type, x.id) # key)],
                        "unsubscribe", type, method, id, 0)
    /\ UNCHANGED <<connectorVars, evm, alloc>>

\* lines 324-329: disconnect() is called
SmoldotDisconnect ==
    LET t == [task |-> "disconnect", kind |-> "disconnect", type |-> "",
              method |-> "", param |-> 0, chain |-> smoldot.chain,
              closure |-> 0]
    IN
    /\ Quiescent
    /\ \A k \in 1..Len(smoldot.waiting) :
          smoldot.waiting[k].task # "disconnect"
    /\ smoldot' =
          IF smoldot.chain = 0
          THEN [Quiet EXCEPT !.last = "none"]
          ELSE IF smoldot.chains[smoldot.chain].state = "pending"
          THEN [Quiet EXCEPT !.last = "none",
                               !.waiting = Append(@, t)]
          ELSE [Quiet EXCEPT !.last = "none",
                               !.micro = Append(@, t)]
    /\ UNCHANGED <<connectorVars, evm, alloc>>

\* lines 329-338: disconnect() goes on after its await of #chain
DisconnectContinues ==
    LET t == Head(smoldot.micro)
    IN
    /\ ~Quiescent
    /\ t.task = "disconnect"
    /\ smoldot' = remove([Quiet EXCEPT !.micro = Tail(@), !.chain = 0,
                                         !.isChainReady = FALSE],
                         t.chain)
    /\ UNCHANGED <<connectorVars, evm, alloc>>

\* lines 182-201: the chain answers request id, with a result or an error;
\* the id it gives the subscription it opens for a subscribe is, here, the
\* id of the request, which no other subscription has
Response(id, ok) ==
    /\ Quiescent
    /\ id \in smoldot.requests
    /\ smoldot.sends[id].onWire
    /\ smoldot.chains[smoldot.sends[id].chain].state = "resolved"
    /\ smoldot' =
          IF ok THEN Settle(Quiet, id, TRUE, id, "none")
          ELSE Settle(Quiet, id, FALSE, 0, "rpc error")
    /\ UNCHANGED <<connectorVars, evm, alloc>>

\* lines 203-208: the chain sends a message of subscription type::id; the
\* callback stored under that key, if any, is called
Notification(type, id) ==
    LET key == SubscriptionKey(type, id)
    IN
    /\ Quiescent
    /\ key \in SubscriptionKeys(smoldot)
    /\ smoldot' = [Quiet EXCEPT
                     !.callbacks = @ \cup
                         {<<type, id, "message",
                            key \in smoldot.unsubscribed>>}]
    /\ UNCHANGED <<connectorVars, evm, alloc>>

\* line 260: the 500 ms timer of the race of line 258 fires before the send
\* of the stale unsubscribe has settled
KillTimeout(id) ==
    /\ Quiescent
    /\ id \in 1..Len(smoldot.sends)
    /\ smoldot.sends[id].kind = "kill"
    /\ smoldot.sends[id].state = "in flight"
    /\ ~smoldot.sends[id].raced
    /\ smoldot' = [Quiet EXCEPT
                     !.sends[id].raced = TRUE,
                     !.micro = Append(@, KillTask(smoldot.sends[id].closure))]
    /\ UNCHANGED <<connectorVars, evm, alloc>>

\* ------------------------------------------- getExclusiveRandomId, the loop
\* ChainConnector.ts lines 180-208.  connectChainSocket above takes the loop
\* as one step; here every draw of getRandomId and every test of the while
\* condition is a step, over a domain of AllocDomain ids.
AllocDomain == 4

\* line 206-208: what getRandomId may return
getRandomId == 0..(AllocDomain - 1)

\* a while condition that holds of every id
ExcludedAlways(exclude, id) == TRUE
\* line 200: exclude.includes(id)
Excluded(exclude, id) == id \in Range(exclude)

\* lines 181-182 and 199: addSocketUser calls getExclusiveRandomId with the
\* ids of the chain, which draws a first id
getExclusiveRandomIdCalled(id) ==
    /\ alloc.pc = "idle"
    /\ id \in getRandomId
    /\ alloc' = [alloc EXCEPT !.pc = "loop", !.id = id, !.collided = FALSE]
    /\ UNCHANGED <<connectorVars, evm, smoldot>>

\* lines 200-202: the id is excluded, the body of the loop draws another
LoopBody(id) ==
    /\ alloc.pc = "loop"
    /\ Excluded(alloc.exclude, alloc.id)
    /\ id \in getRandomId
    /\ alloc' = [alloc EXCEPT !.id = id, !.collided = TRUE]
    /\ UNCHANGED <<connectorVars, evm, smoldot>>

\* lines 200 and 203: the id is not excluded, the loop ends and the id is
\* returned
LoopExit ==
    /\ alloc.pc = "loop"
    /\ ~Excluded(alloc.exclude, alloc.id)
    /\ alloc' = [alloc EXCEPT !.pc = "returned"]
    /\ UNCHANGED <<connectorVars, evm, smoldot>>

\* lines 183-184: addSocketUser pushes the id it was given
IdPushed ==
    /\ alloc.pc = "returned"
    /\ alloc' = [alloc EXCEPT !.pc = "idle",
                              !.exclude = addSocketUser(@, alloc.id)]
    /\ UNCHANGED <<connectorVars, evm, smoldot>>

\* lines 186-195: removeSocketUser takes an id out of the list
IdRemoved(id) ==
    /\ alloc.pc = "idle"
    /\ id \in Range(alloc.exclude)
    /\ alloc' = [alloc EXCEPT !.exclude = removeSocketUser(@, id)]
    /\ UNCHANGED <<connectorVars, evm, smoldot>>

\* ---------------------------------------------------------- specification
Init ==
    /\ socketConnections = [c \in Chains |-> None]
    /\ socketKeepAliveIntervals = [c \in Chains |-> None]
    /\ socketUsers = [c \in Chains |-> <<>>]
    /\ transports = <<>>
    /\ timers = <<>>
    /\ calls = [i \in Calls |-> IdleCall]
    /\ hung = FALSE
    /\ logged = {}
    /\ evm = EvmIdle
    /\ smoldot = SmoldotIdle
    /\ alloc = [pc |-> "idle", exclude |-> <<>>, id |-> NoId,
                collided |-> FALSE]

Step(again) ==
    \/ \E i \in Calls, c \in Chains, chain \in ChainValues : Send(i, c, chain)
    \/ \E i \in Calls, c \in Chains, chain \in ChainValues :
          Subscribe(i, c, chain)
    \/ \E i \in Calls : connectChainSocket(i)
    \/ \E i \in Calls : waitForWs(i)
    \/ \E i \in Calls : SendResolved(i)
    \/ \E i \in Calls : SendRejected(i)
    \/ \E i \in Calls : SubscribeResolved(i)
    \/ \E i \in Calls : SubscribeRejected(i)
    \/ \E i \in Calls : Unsubscribe(i, again)
    \/ \E i \in Calls : UnsubscribeResolved(i)
    \/ \E i \in Calls : UnsubscribeRejected(i)
    \/ \E w \in 1..MaxTransports : WsReady(w)

\* correct use: every returned unsubscribe function is invoked at most once
Next == Step(FALSE)
Spec == Init /\ [][Next]_vars

\* a caller may invoke a returned unsubscribe function a second time
NextMisuse == Step(TRUE)
SpecMisuse == Init /\ [][NextMisuse]_vars

\* one caller and every rpc list: the endpoint ordering of connectChainSocket
\* on all its inputs
InitOrder == Init
NextOrder ==
    \/ /\ calls[1].pc = "idle"
       /\ \E c \in Chains, chain \in OrderChainValues : Send(1, c, chain)
    \/ connectChainSocket(1)
    \/ waitForWs(1)
SpecOrder == InitOrder /\ [][NextOrder]_vars

\* the connector with send calls as borrowers, the keepalive timers firing
\* and sockets dropping
NextKeepAlive ==
    \/ \E i \in Calls, c \in Chains, chain \in ChainValues : Send(i, c, chain)
    \/ \E i \in Calls : connectChainSocket(i)
    \/ \E i \in Calls : waitForWs(i)
    \/ \E i \in Calls : SendResolved(i)
    \/ \E i \in Calls : SendRejected(i)
    \/ \E w \in 1..Len(transports) : WsReady(w)
    \/ \E t \in 1..Len(timers) : KeepAliveTick(t)
    \/ \E w \in 1..Len(transports) : ProbeResolved(w)
    \/ \E w \in 1..Len(transports) : ProbeRejected(w)
    \/ \E w \in 1..Len(transports) : ConnectionLost(w)
    \/ \E w \in 1..Len(transports) : Reconnected(w)
SpecKeepAlive == Init /\ [][NextKeepAlive]_vars

\* subscriptions made and ended through subscribeBalances
NextBalances ==
    \/ /\ \A i \in Calls : calls[i].pc = "idle"
       /\ \E chains \in [Calls -> ChainValues] : subscribeBalances(chains)
    \/ \E i \in Calls : connectChainSocket(i)
    \/ \E i \in Calls : waitForWs(i)
    \/ \E i \in Calls : SubscribeResolved(i)
    \/ \E i \in Calls : SubscribeRejected(i)
    \/ unsubscribeBalances
    \/ \E i \in Calls : DeferredUnsubscribe(i)
    \/ \E i \in Calls : UnsubscribeResolved(i)
    \/ \E i \in Calls : UnsubscribeRejected(i)
    \/ \E w \in 1..Len(transports) : WsReady(w)
SpecBalances == Init /\ [][NextBalances]_vars

\* the EVM rpc helpers on every url list, chain id, answer and error
\* lines 80 and 92: send(method, params) is called on a provider and awaits
\* super.send
ProviderSend(provider) ==
    /\ evm.pc = "idle"
    /\ evm' = [evm EXCEPT !.pc = "sending", !.provider = provider]
    /\ UNCHANGED <<connectorVars, smoldot, alloc>>

\* lines 82 and 94: super.send resolved, its value is returned
SuperSendResolved(value) ==
    /\ evm.pc = "sending"
    /\ evm' = [evm EXCEPT !.pc = "sent", !.value = value]
    /\ UNCHANGED <<connectorVars, smoldot, alloc>>

\* a catch block that emits the error and swallows it
SuperSendRejectedSwallows(err) ==
    /\ evm.pc = "sending"
    /\ evm' = [evm EXCEPT !.pc = "sent", !.err = err,
                          !.unhealthy = isUnhealthyRpcError(err),
                          !.emitted = IF isUnhealthyRpcError(err)
                                      THEN Append(@, <<"error", err>>) ELSE @]
    /\ UNCHANGED <<connectorVars, smoldot, alloc>>

\* lines 83-87 and 95-99: super.send rejected with err: the catch block emits
\* "error" if isUnhealthyRpcError(err), then throws err again
SuperSendRejected(err) ==
    /\ evm.pc = "sending"
    /\ evm' = [evm EXCEPT !.pc = "send threw", !.err = err,
                          !.unhealthy = isUnhealthyRpcError(err),
                          !.emitted = IF isUnhealthyRpcError(err)
                                      THEN Append(@, <<"error", err>>) ELSE @,
                          !.thrown = err]
    /\ UNCHANGED <<connectorVars, smoldot, alloc>>

InitEvm == Init
NextEvm ==
    \/ /\ evm.pc = "idle"
       /\ \E rpcUrls \in UrlLists, chainId \in ChainIds :
             getHealthyRpc(rpcUrls, chainId)
    \/ \E resp \in Responses : ProbeSettled(resp)
    \/ LoopContinues
    \/ ReturnNull
    \/ \E err \in Errors : ClassifyError(err)
    \/ \E provider \in {"StandardRpcProvider", "BatchRpcProvider"} :
          ProviderSend(provider)
    \/ \E value \in {"0x5", "0x"} : SuperSendResolved(value)
    \/ \E err \in Errors : SuperSendRejected(err)
SpecEvm == InitEvm /\ [][NextEvm]_vars

NextSmoldot ==
    \/ SmoldotConnect
    \/ \E g \in 1..MaxWork : AddChainResolved(g)
    \/ \E g \in 1..MaxWork : AddChainRejected(g)
    \/ \E g \in 1..MaxWork, isReady \in BOOLEAN : Health(g, isReady)
    \/ KillStaleSubscriptions
    \/ \E throws \in BOOLEAN : SendContinues(throws)
    \/ \E method \in {"system_chain"} : SmoldotSend(method)
    \/ \E c \in SubscribeCalls : SmoldotSubscribe(c[1], c[2])
    \/ \E c \in UnsubscribeCalls, id \in 1..MaxWork :
          SmoldotUnsubscribe(c[1], c[2], id)
    \/ SmoldotDisconnect
    \/ DisconnectContinues
    \/ \E id \in 1..MaxWork, ok \in BOOLEAN : Response(id, ok)
    \/ \E c \in UnsubscribeCalls, id \in 1..MaxWork : Notification(c[1], id)
    \/ \E id \in 1..MaxWork : KillTimeout(id)
SpecSmoldot == Init /\ [][NextSmoldot]_vars

NextAlloc ==
    \/ \E id \in getRandomId : getExclusiveRandomIdCalled(id)
    \/ \E id \in getRandomId : LoopBody(id)
    \/ LoopExit
    \/ IdPushed
    \/ \E id \in getRandomId : IdRemoved(id)
\* the loop is synchronous code, it goes on until it ends; and the random
\* source is fair: a value that can be drawn again and again is drawn
SpecAllocFair ==
    /\ Init
    /\ [][NextAlloc]_vars
    /\ WF_vars(LoopExit)
    /\ \A id \in getRandomId : WF_vars(LoopBody(id))

TypeOK ==
    /\ socketConnections \in [Chains -> 0..MaxTransports]
    /\ \A c \in Chains : Range(socketUsers[c]) \subseteq Ids
    /\ Len(transports) <= MaxTransports
    /\ hung \in BOOLEAN

\* ------------------------------------------------------------ vocabulary
\* transports of chain c that were constructed and not yet disconnected
LiveTransports(c) ==
    {w \in 1..Len(transports) :
        transports[w].chainId = c /\ ~transports[w].disconnected}

\* call i has acquired a user id and is still before its release
InFlight(i) == calls[i].pc \in {"waitForWs", "wsSend", "wsSubscribe"}

\* the subscription of call i is set up and no invocation of its unsubscribe
\* function has run to its end
Subscribed(i) ==
    /\ calls[i].pc = "subscribed"
    /\ calls[i].unsubCalls = "never" \/ calls[i].unsubPending > 0
    /\ calls[i].unsubResult = "none"

Holds(i) == InFlight(i) \/ Subscribed(i)

\* this step ends the connectChainSocket of call i
AcquireStep(i) == calls[i].pc = "getChain" /\ calls'[i] # calls[i]

\* this step runs disconnectChainSocket for call i: the end of a send, a
\* failed subscribe, or an unsubscribe whose RPC has resolved
ReleaseStep(i) ==
    \/ calls[i].pc \in {"wsSend", "wsSubscribe"} /\
       calls'[i].pc \in {"returned", "threw"}
    \/ /\ calls'[i].unsubPending = calls[i].unsubPending - 1
       /\ calls'[i].unsubResult \in {"done", "UserNotInList"}

\* the release of this step raised the consistency error
ReleaseRaised(i) ==
    \/ calls'[i].pc = "threw" /\ calls'[i].result = "UserNotInList"
    \/ /\ calls'[i].unsubPending = calls[i].unsubPending - 1
       /\ calls'[i].unsubResult = "UserNotInList"

\* ------------------------------------------------------------------ claims

\* C1: whatever the interleaving of send, subscribe and unsubscribe calls,
\* a chain never has more than one live transport (constructed and not yet
\* disconnected).
C1_AtMostOneLiveTransport ==
    \A c \in Chains : Cardinality(LiveTransports(c)) <= 1

\* two callers hold user ids of one chain at the same time and share its
\* single live transport
C1_Witness ==
    \E i, j \in Calls :
        /\ i # j /\ Holds(i) /\ Holds(j)
        /\ calls[i].chainId = calls[j].chainId
        /\ calls[i].ws = calls[j].ws
        /\ Cardinality(LiveTransports(calls[i].chainId)) = 1

\* C2: the transport of a chain is disconnected and removed from the pool
\* exactly in the release step that empties the chain's user list: a
\* transport is only ever disconnected by the step that takes the user list
\* from one user to none, it is then the pooled transport, and every step
\* that empties the user list leaves the chain without a pooled or live
\* transport.
C2_DisconnectedExactlyOnLastRelease ==
    [][\A c \in Chains :
        /\ \A w \in 1..Len(transports) :
              (transports[w].chainId = c /\ ~transports[w].disconnected /\
               transports'[w].disconnected)
              => /\ Len(socketUsers[c]) = 1
                 /\ socketUsers'[c] = <<>>
                 /\ socketConnections[c] = w
        /\ (socketConnections[c] # None /\ socketConnections'[c] # socketConnections[c])
              => /\ Len(socketUsers[c]) = 1
                 /\ socketUsers'[c] = <<>>
                 /\ socketConnections'[c] = None
                 /\ transports'[socketConnections[c]].disconnected
        /\ (socketUsers[c] # <<>> /\ socketUsers'[c] = <<>>)
              => /\ socketConnections'[c] = None
                 /\ \A w \in 1..Len(transports') :
                       transports'[w].chainId = c => transports'[w].disconnected
    ]_vars

\* a last release has disconnected a transport while an earlier release of
\* the same chain had left it connected
C2_Witness ==
    \E c \in Chains :
        /\ socketUsers[c] = <<>>
        /\ socketConnections[c] = None
        /\ \E w \in 1..Len(transports) :
              transports[w].chainId = c /\ transports[w].disconnected
        /\ \E i, j \in Calls :
              /\ i # j
              /\ calls[i].pc \in {"returned", "threw"}
              /\ calls[i].result \in {"response", "TransportError"}
              /\ calls[j].pc \in {"returned", "threw"}
              /\ calls[j].result \in {"response", "TransportError"}

\* C3: a send releases the user id it acquired exactly once, whether the
\* transport call succeeds or fails: the acquire appends one fresh id, the
\* step that ends the transport call removes exactly that id and nothing
\* else, the caller gets the response or, after the release, the transport's
\* error, and a finished send takes no further step.
C3_SendReleasesExactlyOnce ==
    [][\A i \in Calls :
        LET c == calls[i].chainId IN
        /\ (calls[i].kind = "send" /\ AcquireStep(i) /\ calls'[i].pc = "waitForWs")
              => /\ calls'[i].socketUserId \notin Range(socketUsers[c])
                 /\ socketUsers'[c] =
                       Append(socketUsers[c], calls'[i].socketUserId)
        /\ (calls[i].pc = "wsSend" /\ calls'[i] # calls[i])
              => /\ calls[i].socketUserId \in Range(socketUsers[c])
                 /\ Len(socketUsers'[c]) = Len(socketUsers[c]) - 1
                 /\ Range(socketUsers'[c]) =
                       Range(socketUsers[c]) \ {calls[i].socketUserId}
                 /\ \/ calls'[i].pc = "returned" /\ calls'[i].result = "response"
                    \/ /\ calls'[i].pc = "threw"
                       /\ calls'[i].result = "TransportError"
                       /\ "error:send" \in logged'
        /\ (calls[i].kind = "send" /\ calls[i].pc \in {"returned", "threw"})
              => calls'[i] = calls[i]
    ]_vars

\* one send has returned its response and another has rethrown the
\* transport's error
C3_Witness ==
    \E i, j \in Calls :
        /\ calls[i].kind = "send" /\ calls[i].result = "response"
        /\ calls[j].kind = "send" /\ calls[j].result = "TransportError"

\* C4: user ids never leak: the user list of a chain holds exactly the ids of
\* the calls that have acquired and not yet finished and of the
\* subscriptions whose unsubscribe has not run to its end.
C4_NoLeakedHandles ==
    \A c \in Chains :
        Range(socketUsers[c]) =
            {calls[i].socketUserId :
                i \in {j \in Calls : Holds(j) /\ calls[j].chainId = c}}

\* C5 as claimed: no release ever raises an error, a second release of the
\* same user id included.
C5_ReleaseNeverRaises ==
    \A i \in Calls :
        /\ calls[i].result # "UserNotInList"
        /\ calls[i].unsubResult # "UserNotInList"

\* C5 as amended: a release that removes the last user id of a chain that has
\* no pooled transport does not raise; it logs the socket-not-found warning,
\* empties the user list and leaves transports and timers as they were.
C5_ReleaseWithoutSocketWarns ==
    [][\A i \in Calls :
        LET c == calls[i].chainId IN
        (/\ ReleaseStep(i)
         /\ socketUsers[c] = <<calls[i].socketUserId>>
         /\ socketConnections[c] = None)
        => /\ ~ReleaseRaised(i)
           /\ logged' \ {"error:send"} = {"warn:socketNotFound"}
           /\ socketUsers'[c] = <<>>
           /\ UNCHANGED <<socketConnections, socketKeepAliveIntervals,
                          transports, timers>>
    ]_vars

\* a release has just found no socket to disconnect
C5_Witness == "warn:socketNotFound" \in logged

\* C6: a release with a user id that is not in the chain's user list raises
\* the consistency error and leaves the user list, the transports and the
\* keepalive timers unchanged.
C6_ReleaseOfNonMemberRaises ==
    [][\A i \in Calls :
        (ReleaseStep(i) /\
         calls[i].socketUserId \notin Range(socketUsers[calls[i].chainId]))
        => /\ ReleaseRaised(i)
           /\ UNCHANGED poolVars
    ]_vars

\* a second invocation of an unsubscribe function has raised
C6_Witness ==
    \E i \in Calls :
        calls[i].unsubCalls = "twice" /\ calls[i].unsubResult = "UserNotInList"

\* C7: an acquire that fails while opening a transport (no rpcs, or the
\* constructor throws) leaves nothing behind: no user id added, no
\* transport, no timer change.
C7_FailedAcquireLeavesNothing ==
    [][\A i \in Calls :
        (AcquireStep(i) /\
         calls'[i].result \in {"NoHealthyRpcs", "TransportConstruction"})
        => /\ socketUsers' = socketUsers
           /\ socketConnections'[calls[i].chainId] = None
           /\ UNCHANGED <<socketKeepAliveIntervals, transports, timers>>
    ]_vars

\* C8: a chain with a non-empty user list has a transport in the pool.
C8_UsersImplyTransport ==
    \A c \in Chains : socketUsers[c] # <<>> => socketConnections[c] # None

\* C9: an acquire for a chain the directory does not know fails with the
\* chain-not-found error, changes nothing in the pool, and is not retried
\* (the call is over).
C9_UnknownChainFailsCleanly ==
    [][\A i \in Calls :
        /\ (AcquireStep(i) /\ ~calls[i].chain.found)
              => /\ calls'[i].pc = "threw"
                 /\ calls'[i].result = "ChainNotFound"
                 /\ UNCHANGED poolVars
        /\ (calls[i].pc = "threw" /\ calls[i].result = "ChainNotFound")
              => calls'[i] = calls[i]
    ]_vars

\* a lookup has failed with chain-not-found while another caller was using
\* the pool
C9_Witness ==
    \E i, j \in Calls :
        /\ calls[i].result = "ChainNotFound"
        /\ Holds(j)
        /\ socketConnections[calls[j].chainId] # None

\* C10: an acquire that finds a transport in the pool returns that transport
\* with a fresh user id appended to the list; it constructs no transport and
\* touches no timer, whatever rpcs the directory returned.
C10_ExistingTransportIsReused ==
    [][\A i \in Calls :
        LET c == calls[i].chainId IN
        (AcquireStep(i) /\ calls[i].chain.found /\ socketConnections[c] # None)
        => /\ calls'[i].pc = "waitForWs"
           /\ calls'[i].ws = socketConnections[c]
           /\ calls'[i].socketUserId \notin Range(socketUsers[c])
           /\ socketUsers'[c] = Append(socketUsers[c], calls'[i].socketUserId)
           /\ UNCHANGED <<socketConnections, socketKeepAliveIntervals,
                          transports, timers>>
    ]_vars

\* two callers hold the one transport that was ever constructed: the second
\* acquire reused it
C10_Witness ==
    \E i, j \in Calls :
        /\ i # j /\ InFlight(i) /\ InFlight(j)
        /\ calls[i].ws = calls[j].ws
        /\ socketConnections[calls[i].chainId] = calls[i].ws
        /\ Len(transports) = 1

\* C11: the endpoint list given to a newly constructed transport is a
\* permutation of the chain's endpoint urls in which every healthy endpoint
\* precedes every unhealthy one and the input order is kept inside each
\* group; [A(unhealthy), B(healthy), C(healthy), D(unhealthy)] gives
\* [B, C, A, D].
StableHealthyFirst(in, out) ==
    /\ Len(out) = Len(in)
    /\ \E p \in Permutations(1..Len(in)) :
          /\ \A k \in 1..Len(in) : out[k] = in[p[k]].url
          /\ \A k, l \in 1..Len(in) :
                k < l => /\ in[p[k]].isHealthy \/ ~in[p[l]].isHealthy
                         /\ (in[p[k]].isHealthy = in[p[l]].isHealthy)
                               => p[k] < p[l]

ExampleCandidates ==
    <<Rpc("A", FALSE), Rpc("B", TRUE), Rpc("C", TRUE), Rpc("D", FALSE)>>

C11_HealthyFirstStableOrder ==
    \A w \in 1..Len(transports) :
        /\ StableHealthyFirst(transports[w].candidates, transports[w].rpcs)
        /\ transports[w].candidates = ExampleCandidates
              => transports[w].rpcs = <<"B", "C", "A", "D">>

\* the transport built from the example list
C11_Witness ==
    \E w \in 1..Len(transports) :
        /\ transports[w].candidates = ExampleCandidates
        /\ transports[w].rpcs = <<"B", "C", "A", "D">>

\* an acquire of call i that finds the chain and no transport in the pool
FreshAcquireStep(i) ==
    /\ AcquireStep(i)
    /\ calls[i].chain.found
    /\ socketConnections[calls[i].chainId] = None

\* the step stores a new transport built from all of the chain's endpoints
\* and hands it to call i
OpensTransport(i) ==
    LET c == calls[i].chainId
        w == Len(transports) + 1
    IN /\ Len(transports') = w
       /\ \A v \in 1..Len(transports) : transports'[v] = transports[v]
       /\ transports'[w].chainId = c
       /\ transports'[w].candidates = calls[i].chain.rpcs
       /\ StableHealthyFirst(calls[i].chain.rpcs, transports'[w].rpcs)
       /\ ~transports'[w].disconnected
       /\ socketConnections'[c] = w
       /\ calls'[i].pc = "waitForWs"
       /\ calls'[i].ws = w

\* the transport constructor throws: the step stores nothing
ConstructorThrows(i) ==
    /\ calls'[i].pc = "threw"
    /\ calls'[i].result = "TransportConstruction"
    /\ transports' = transports
    /\ socketConnections' = socketConnections

\* C12: for a chain without a transport, acquire fails with the no-healthy-rpcs
\* error exactly when the ordered endpoint list is empty, that is when the
\* chain has no endpoints; when the list is not empty it constructs a new
\* transport with the whole ordered list and stores it (nothing is stored
\* only if the constructor itself throws).
C12_NoHealthyRpcsIffNoEndpoints ==
    [][\A i \in Calls :
          FreshAcquireStep(i) =>
              /\ (calls'[i].result = "NoHealthyRpcs")
                    <=> (Len(calls[i].chain.rpcs) = 0)
              /\ calls'[i].result = "NoHealthyRpcs"
                    => /\ calls'[i].pc = "threw"
                       /\ transports' = transports
                       /\ socketConnections' = socketConnections
              /\ Len(calls[i].chain.rpcs) > 0
                    => OpensTransport(i) \/ ConstructorThrows(i)]_vars

\* a call on a chain without endpoints has failed with the no-healthy-rpcs
\* error, and the pool holds no transport
C12_Witness ==
    /\ calls[1].pc = "threw"
    /\ calls[1].result = "NoHealthyRpcs"
    /\ transports = <<>>

AllUnhealthy(rpcs) == \A k \in 1..Len(rpcs) : ~rpcs[k].isHealthy

\* C13 as stated: for a chain without a transport whose endpoints are all
\* marked unhealthy, acquire fails with the no-healthy-rpcs error and opens
\* no transport.
C13_AllUnhealthyFails ==
    [][\A i \in Calls :
          (FreshAcquireStep(i) /\ AllUnhealthy(calls[i].chain.rpcs)) =>
              /\ calls'[i].pc = "threw"
              /\ calls'[i].result = "NoHealthyRpcs"
              /\ transports' = transports
              /\ socketConnections' = socketConnections]_vars

\* C13 (amended): for a chain without a transport whose endpoints are all
\* marked unhealthy, acquire fails with the no-healthy-rpcs error only when
\* there is no endpoint at all; with at least one endpoint it opens a
\* transport with all of them in their input order (or the constructor
\* throws its own error).
C13_AllUnhealthyStillOpens ==
    [][\A i \in Calls :
          (FreshAcquireStep(i) /\ AllUnhealthy(calls[i].chain.rpcs)) =>
              IF Len(calls[i].chain.rpcs) = 0
              THEN /\ calls'[i].pc = "threw"
                   /\ calls'[i].result = "NoHealthyRpcs"
                   /\ "error:connect" \in logged'
                   /\ transports' = transports
                   /\ socketConnections' = socketConnections
              ELSE \/ /\ OpensTransport(i)
                      /\ transports'[Len(transports')].rpcs =
                            Urls(calls[i].chain.rpcs)
                   \/ ConstructorThrows(i)]_vars

\* a transport opened on endpoints that are all marked unhealthy
C13_Witness ==
    \E w \in 1..Len(transports) :
        /\ Len(transports[w].candidates) > 1
        /\ AllUnhealthy(transports[w].candidates)
        /\ transports[w].rpcs = Urls(transports[w].candidates)

\* the ids of a list are pairwise distinct
Distinct(users) ==
    \A k, l \in 1..Len(users) : k # l => users[k] # users[l]

\* C14: the user ids in a chain's active list are pairwise distinct, and a
\* successful acquire returns an id that was not in the chain's list when it
\* was taken and that no other caller holds.
C14_HandlesUnique ==
    [][/\ \A c \in Chains : Distinct(socketUsers'[c])
       /\ \A i \in Calls :
             (AcquireStep(i) /\ calls'[i].pc = "waitForWs") =>
                 LET c == calls[i].chainId
                     id == calls'[i].socketUserId
                 IN /\ id \notin Range(socketUsers[c])
                    /\ socketUsers'[c] = Append(socketUsers[c], id)
                    /\ \A j \in Calls \ {i} :
                          (Holds(j) /\ calls[j].chainId = c)
                              => calls[j].socketUserId # id]_vars

\* two callers hold different ids of the same chain at once
C14_Witness ==
    \E i, j \in Calls :
        /\ i # j
        /\ Holds(i) /\ Holds(j)
        /\ calls[i].chainId = calls[j].chainId
        /\ calls[i].socketUserId # calls[j].socketUserId
        /\ Len(socketUsers[calls[i].chainId]) = 2

\* C15: when the transport's subscribe call fails, the user id acquired for
\* the subscription is released exactly once (that id and nothing else leaves
\* the list in the step that handles the failure), the transport's error is
\* rethrown to the caller, and no unsubscribe function is returned: the call
\* is over and takes no further step.
C15_FailedSubscribeReleasesOnce ==
    [][\A i \in Calls :
        LET c == calls[i].chainId IN
        /\ (calls[i].pc = "wsSubscribe" /\ calls'[i].pc # "subscribed"
               /\ calls'[i] # calls[i])
              => /\ calls[i].socketUserId \in Range(socketUsers[c])
                 /\ Len(socketUsers'[c]) = Len(socketUsers[c]) - 1
                 /\ Range(socketUsers'[c]) =
                       Range(socketUsers[c]) \ {calls[i].socketUserId}
                 /\ calls'[i].pc = "threw"
                 /\ calls'[i].result = "TransportError"
                 /\ calls'[i].unsubCalls = "never"
        /\ (calls[i].kind = "subscribe" /\ calls[i].pc = "threw")
              => calls'[i] = calls[i]
        /\ calls'[i].result = "unsubscribe" => calls'[i].pc = "subscribed"
    ]_vars

\* a subscribe has rethrown the transport's error while another caller still
\* holds its own id
C15_Witness ==
    \E i, j \in Calls :
        /\ calls[i].kind = "subscribe" /\ calls[i].pc = "threw"
        /\ calls[i].result = "TransportError"
        /\ Holds(j)
        /\ socketUsers[calls[j].chainId] = <<calls[j].socketUserId>>

\* C16: once an invocation of the unsubscribe function has finished, whether
\* its unsubscribe RPC succeeded or failed, the subscription's user id is no
\* longer in the chain's list (unless a later acquire has drawn the same value
\* for a caller that holds it now).
C16_UnsubscribeReleasesHandle ==
    \A i \in Calls :
        (/\ calls[i].pc = "subscribed"
         /\ calls[i].unsubCalls # "never"
         /\ calls[i].unsubPending = 0)
           => \/ calls[i].socketUserId \notin Range(socketUsers[calls[i].chainId])
              \/ \E j \in Calls \ {i} :
                    /\ Holds(j)
                    /\ calls[j].chainId = calls[i].chainId
                    /\ calls[j].socketUserId = calls[i].socketUserId

\* C17: the unsubscribe function issues its unsubscribe RPC, with the
\* subscription id that subscribe obtained, on the transport the subscription
\* was created on, and releases the user id only afterwards: the step that
\* issues the RPC changes nothing in the pool, the caller's release happens
\* in a later step that answers an issued RPC, and until the RPC is issued
\* the caller's transport stays the chain's pooled, connected transport.
C17_UnsubscribeRpcBeforeRelease ==
    [][\A i \in Calls :
        LET c == calls[i].chainId IN
        /\ (calls[i].pc = "wsSubscribe" /\ calls'[i].pc = "subscribed")
              => /\ calls'[i].ws = calls[i].ws
                 /\ calls'[i].subscriptionId = SubscriptionId(i)
        /\ (calls[i].pc = "subscribed" /\
            calls'[i].unsubPending = calls[i].unsubPending + 1)
              => /\ calls'[i].unsubRpc =
                       UnsubscribeRpc(calls[i].ws, SubscriptionId(i))
                 /\ calls'[i].ws = calls[i].ws
                 /\ UNCHANGED poolVars
        /\ (calls[i].pc = "subscribed" /\ calls'[i] # calls[i] /\
            (socketUsers' # socketUsers \/ transports' # transports))
              => /\ calls[i].unsubPending > 0
                 /\ calls[i].unsubRpc.ws = calls[i].ws
        /\ (calls'[i].pc = "subscribed" /\ calls'[i].unsubCalls = "never")
              => /\ socketConnections'[c] = calls'[i].ws
                 /\ ~transports'[calls'[i].ws].disconnected
    ]_vars

\* an unsubscribe has issued its RPC on the subscription's transport and its
\* release has then disconnected that transport
C17_Witness ==
    \E i \in Calls :
        /\ calls[i].pc = "subscribed"
        /\ calls[i].unsubResult = "done"
        /\ calls[i].unsubRpc = UnsubscribeRpc(calls[i].ws, SubscriptionId(i))
        /\ transports[calls[i].ws].disconnected

\* the keepalive timers of chain c that are running
RunningTimers(c) ==
    {t \in 1..Len(timers) : timers[t].chainId = c /\ timers[t].running}

\* C18: callers that hold user ids of a chain at the same time share one
\* transport, and whenever all ids of the chain have been released the chain
\* has no transport and no keepalive timer, whenever the ready signal of its
\* transports fires: no timer is installed while nobody has acquired.
C18_NothingLeftAfterLastRelease ==
    \A c \in Chains :
        /\ \A i, j \in Calls :
              (Holds(i) /\ Holds(j) /\ calls[i].chainId = c /\ calls[j].chainId = c)
                  => calls[i].ws = calls[j].ws
        /\ socketUsers[c] = <<>>
              => /\ socketConnections[c] = None
                 /\ LiveTransports(c) = {}
                 /\ socketKeepAliveIntervals[c] = None
                 /\ RunningTimers(c) = {}

\* C19: in every reachable state at most one keepalive timer runs per chain,
\* and it is the one stored for the chain: a timer is installed only after
\* the stored one has been cleared, also when a chain is acquired again.
C19_AtMostOneRunningTimer ==
    \A c \in Chains :
        /\ Cardinality(RunningTimers(c)) <= 1
        /\ RunningTimers(c) \subseteq {socketKeepAliveIntervals[c]}

\* the chain was acquired again: its first transport is disconnected and its
\* timer stopped, the second transport is ready and its timer runs
C19_Witness ==
    /\ Len(transports) = 2 /\ Len(timers) = 2
    /\ transports[1].disconnected /\ transports[1].isReady
    /\ ~transports[2].disconnected /\ transports[2].isReady
    /\ transports[1].chainId = transports[2].chainId
    /\ RunningTimers(transports[2].chainId) = {2}

\* C20: the wait for readiness, which has a finite timeout, never blocks the
\* caller for good: the caller can go on whether or not the transport is
\* ready. The step that ends the wait changes nothing in the pool (the
\* transport is not disconnected, the user id stays) and issues the caller's
\* transport call on the same transport, also when the transport is not
\* ready.
C20_WaitUnblocksAndChangesNothing ==
    [][\A i \in Calls :
        /\ (calls[i].pc = "waitForWs" /\ ~hung) => ENABLED waitForWs(i)
        /\ (calls[i].pc = "waitForWs" /\ calls'[i] # calls[i])
              => /\ UNCHANGED poolVars
                 /\ calls'[i].pc =
                       IF calls[i].kind = "send" THEN "wsSend" ELSE "wsSubscribe"
                 /\ calls'[i].ws = calls[i].ws
                 /\ calls'[i].socketUserId = calls[i].socketUserId
    ]_vars

\* after a timeout a send has gone on to a transport that is not ready and
\* still connected
C20_Witness ==
    \E i \in Calls :
        /\ calls[i].pc = "wsSend"
        /\ ~transports[calls[i].ws].isReady
        /\ ~transports[calls[i].ws].disconnected
        /\ calls[i].socketUserId \in Range(socketUsers[calls[i].chainId])

\* the number a string of hex digits denotes
RECURSIVE HexNumber(_)
HexNumber(ds) ==
    IF ds = <<>> THEN 0
    ELSE 16 * HexNumber(SubSeq(ds, 1, Len(ds) - 1)) + DigitValue(ds[Len(ds)])

\* the answer is 0x followed by at least one hex digit, and denotes id
ReportsChainId(hex, id) ==
    /\ Len(hex) >= 3
    /\ SubSeq(hex, 1, 2) = <<"0", "x">>
    /\ HexNumber(SubSeq(hex, 3, Len(hex))) = id

\* C21: a probe returns healthy exactly when the endpoint answers the
\* eth_chainId request before the timeout and the chain id it reports
\* equals the expected one; in every other case (failed request, timeout,
\* other chain id) it returns unhealthy, and it never throws.
C21_HealthyIffAnswersExpectedChainId ==
    /\ evm.pc # "threw"
    /\ evm.pc = "probed" =>
          evm.probed[Len(evm.probed)].healthy =
              (/\ evm.response.kind = "answer"
               /\ evm.response.inTime
               /\ ReportsChainId(evm.response.hex, evm.chainId))

\* an endpoint answered 0x10 in time for chain id 16 and was found healthy
\* after an endpoint before it was found unhealthy
C21_Witness ==
    /\ evm.chainId = 16
    /\ evm.response = Answer(<<"0", "x", "1", "0">>, TRUE)
    /\ Len(evm.probed) = 2
    /\ ~evm.probed[1].healthy
    /\ evm.probed[2].healthy

\* C22: getHealthyRpc returns the first url, in the given order, whose probe
\* is healthy, having probed the urls before it in order and found them
\* unhealthy, and returns null exactly when it has probed every url and none
\* was healthy (the empty list included); for [u1, u2, u3] where only u2
\* answers with the expected chain id it returns u2.
C22_FirstHealthyUrl ==
    evm.pc = "returned" =>
        IF evm.result = NoUrl
        THEN evm.probed =
                [j \in 1..Len(evm.rpcUrls) |->
                    [url |-> evm.rpcUrls[j], healthy |-> FALSE]]
        ELSE \E k \in 1..Len(evm.rpcUrls) :
                /\ evm.result = evm.rpcUrls[k]
                /\ evm.probed =
                      [j \in 1..k |->
                          [url |-> evm.rpcUrls[j], healthy |-> j = k]]

\* the example: u1 fails, u2 answers 0x5 for chain id 5, u2 is returned and
\* u3 is not probed
C22_Witness ==
    /\ evm.pc = "returned"
    /\ evm.rpcUrls = <<"u1", "u2", "u3">>
    /\ evm.chainId = 5
    /\ evm.response = Answer(<<"0", "x", "5">>, TRUE)
    /\ Len(evm.probed) = 2
    /\ evm.result = "u2"

\* C23: isUnhealthyRpcError returns false exactly for the errors whose
\* reason is "processing response error", and true for every other error.
C23_UnhealthyUnlessAllowedReason ==
    evm.pc = "classified" =>
        (~evm.unhealthy <=>
            (evm.err.type = "object" /\
             evm.err.reason = "processing response error"))

\* the allow-listed error has been classified as not unhealthy
C23_Witness ==
    /\ evm.pc = "classified"
    /\ evm.err = [type |-> "object", reason |-> "processing response error"]
    /\ ~evm.unhealthy

\* this step installs a keepalive timer for chain c
InstallsTimer(c) ==
    /\ Len(timers') = Len(timers) + 1
    /\ timers'[Len(timers')].chainId = c

\* C24: whenever a keepalive timer is installed for a chain, the pool holds
\* a transport for that chain at that moment and that transport has signalled
\* ready; no timer is installed before readiness.
C24_TimerOnlyForReadyPooledTransport ==
    [][\A c \in Chains :
          InstallsTimer(c) =>
              /\ socketConnections'[c] # None
              /\ transports'[socketConnections'[c]].isReady
              /\ ~transports'[socketConnections'[c]].disconnected]_vars

\* the step leaves the user lists, the stored transports, the timers and
\* every call as they are, and changes at most the in-flight flag of probes
KeepAliveFrame ==
    /\ UNCHANGED <<socketConnections, socketKeepAliveIntervals, socketUsers,
                   timers, calls, hung>>
    /\ Len(transports') = Len(transports)
    /\ \A w \in 1..Len(transports) :
          transports'[w] = [transports[w] EXCEPT
                               !.probePending = transports'[w].probePending]

\* C25: a keepalive tick sends the system_health probe only if the pool holds
\* a transport for the chain and that transport is connected, and otherwise
\* only logs a warning; a tick, and a probe that fails, leave the user list,
\* the stored transport and the timer unchanged, and the failure is logged
\* and reaches no caller.
C25_TickProbesOnlyConnectedTransport ==
    [][/\ \A t \in 1..Len(timers) :
             KeepAliveTick(t) =>
                 LET w == socketConnections[timers[t].chainId] IN
                 /\ KeepAliveFrame
                 /\ IF w # None /\ transports[w].isConnected
                    THEN transports'[w].probePending
                    ELSE /\ transports' = transports
                         /\ logged' \in {{"warn:healthcheckNoWs"},
                                         {"warn:healthcheckNotConnected"}}
       /\ \A w \in 1..Len(transports) :
             ProbeRejected(w) =>
                 /\ KeepAliveFrame
                 /\ logged' = {"warn:keepalive"}]_vars

\* a probe has failed while a send is in flight on the pooled transport,
\* whose timer keeps running
C25_Witness ==
    \E i \in Calls :
        /\ logged = {"warn:keepalive"}
        /\ InFlight(i)
        /\ socketConnections[calls[i].chainId] = calls[i].ws
        /\ RunningTimers(calls[i].chainId) # {}

\* C26: an unsubscribe RPC for a subscription is never issued before that
\* subscription's subscribe RPC has resolved with its subscription id: the
\* connector's unsubscribe function exists only from then on, and the
\* function subscribeBalances returns, which may be invoked earlier, defers
\* each unsubscribe until the subscription promise has resolved.
C26_UnsubscribeAfterSubscribeResolved ==
    \A i \in Calls :
        (calls[i].unsubRpc # NoRpc \/ calls[i].unsubCalls # "never")
            => /\ calls[i].pc = "subscribed"
               /\ calls[i].subscriptionId = SubscriptionId(i)
               /\ calls[i].unsubRpc =
                     UnsubscribeRpc(calls[i].ws, SubscriptionId(i))

\* the function of subscribeBalances was invoked before the subscription had
\* resolved, and the unsubscribe RPC went out after it had
C26_Witness ==
    \E i \in Calls :
        /\ calls[i].deferred = "early"
        /\ calls[i].unsubRpc = UnsubscribeRpc(calls[i].ws, SubscriptionId(i))

\* C27: there is no automatic retry: a call of send makes at most one
\* ws.send call and a call of subscribe at most one ws.subscribe call, also
\* when that call fails; a call that waits for or has the transport's answer
\* has made exactly one.
C27_AtMostOneTransportCall ==
    \A i \in Calls :
        /\ calls[i].transportCalls <= 1
        /\ calls[i].pc \in {"wsSend", "wsSubscribe", "subscribed"}
              => calls[i].transportCalls = 1
        /\ calls[i].result \in {"response", "TransportError"}
              => calls[i].transportCalls = 1

\* a send and a subscribe have both failed in the transport after one call
\* each
C27_Witness ==
    \E i, j \in Calls :
        /\ calls[i].kind = "send" /\ calls[i].result = "TransportError"
        /\ calls[j].kind = "subscribe" /\ calls[j].result = "TransportError"
        /\ calls[i].transportCalls = 1 /\ calls[j].transportCalls = 1

\* C28: in every reachable state a transport stored in the pool for a chain
\* implies that the chain's user list is not empty.
C28_TransportImpliesUsers ==
    \A c \in Chains :
        socketConnections[c] # None => socketUsers[c] # <<>>

\* a pooled transport with two users
C28_Witness ==
    \E c \in Chains :
        /\ socketConnections[c] # None
        /\ ~transports[socketConnections[c]].disconnected
        /\ Len(socketUsers[c]) = 2

\* call i holds a user id that it has not released: a send in flight, or a
\* subscription whose unsubscribe function has not been invoked
Unreleased(i) ==
    \/ InFlight(i)
    \/ calls[i].pc = "subscribed" /\ calls[i].unsubCalls = "never"

\* C29: while a caller holds a user id it has not released, the transport it
\* was given is the one stored in the pool for the chain and the pool has
\* not disconnected it.
C29_HolderKeepsPooledTransport ==
    \A i \in Calls :
        Unreleased(i) =>
            /\ socketConnections[calls[i].chainId] = calls[i].ws
            /\ ~transports[calls[i].ws].disconnected

\* C30: an invocation of an unsubscribe function whose subscription has
\* already been released by an earlier invocation removes no user id (the
\* remaining ids belong to other callers) and does not disconnect a transport
\* that another caller still holds, also when the released id value has been
\* drawn again for the same chain.
C30_SecondUnsubscribeTakesNothing ==
    [][\A i \in Calls :
          (/\ calls[i].pc = "subscribed"
           /\ calls[i].unsubResult = "done"
           /\ calls'[i] # calls[i])
             => /\ socketUsers' = socketUsers
                /\ \A j \in Calls \ {i} :
                      Unreleased(j) =>
                          /\ socketConnections'[calls[j].chainId] = calls[j].ws
                          /\ ~transports'[calls[j].ws].disconnected]_vars

\* C31: getHealthyRpc probes the urls one at a time, each probe starting
\* only when the one before it has settled unhealthy, probes no url after
\* the first healthy one, and leaves the url list it was given unchanged.
C31_SequentialProbesListUnchanged ==
    [][/\ evm.pc # "idle" => evm'.rpcUrls = evm.rpcUrls
       /\ Len(evm'.probed) > Len(evm.probed) =>
             /\ Len(evm'.probed) = Len(evm.probed) + 1
             /\ evm.pc = "loop"
             /\ \A k \in 1..Len(evm.probed) : ~evm.probed[k].healthy
             /\ evm'.probed[Len(evm'.probed)].url =
                   evm.rpcUrls[Len(evm'.probed)]
       /\ evm.pc = "returned" => evm' = evm]_vars

\* the first of three urls probed healthy: it is returned, the other two
\* were not probed and the list is as it was given
C31_Witness ==
    /\ evm.pc = "returned"
    /\ evm.rpcUrls = <<"u2", "u1", "u3">>
    /\ evm.result = "u2"
    /\ Len(evm.probed) = 1

\* C32: a send of StandardRpcProvider or BatchRpcProvider whose super.send
\* fails emits one "error" event carrying the error exactly when
\* isUnhealthyRpcError holds of it, and always throws that same error to the
\* caller; a send whose super.send succeeds emits nothing and throws nothing.
C32_EmitsIffUnhealthyAlwaysRethrows ==
    /\ evm.pc = "send threw" =>
          /\ evm.thrown = evm.err
          /\ evm.thrown # NoError
          /\ evm.emitted = IF isUnhealthyRpcError(evm.err)
                           THEN << <<"error", evm.err>> >> ELSE <<>>
    /\ evm.pc = "sent" =>
          /\ evm.emitted = <<>>
          /\ evm.thrown = NoError
          /\ evm.value \in {"0x5", "0x"}
    /\ evm.pc = "sending" => evm.emitted = <<>>

\* a batch provider failed with an expected error: nothing was emitted and
\* the error reached the caller
C32_Witness ==
    /\ evm.pc = "send threw"
    /\ evm.provider = "BatchRpcProvider"
    /\ evm.err = [type |-> "object", reason |-> "processing response error"]
    /\ evm.emitted = <<>>
    /\ evm.thrown = evm.err

\* ------------------------------------------ vocabulary of SmoldotProvider
\* a call of this step was refused: nothing was queued and no id drawn
Refused(error) ==
    /\ smoldot'.last = error
    /\ smoldot'.sends = smoldot.sends
    /\ smoldot'.micro = smoldot.micro
    /\ smoldot'.waiting = smoldot.waiting

\* C33: when a health report takes the chain from ready to not ready, every
\* pending request and every subscription callback gets the "Disconnected"
\* error, #subscriptions is emptied and every subscription that was in it is
\* in the chain's stale list; and a stale subscription of a chain that has
\* not been removed leaves the list, one at a time, only with a send of its
\* recorded unsubscribe method and id.
C33_StaleSubscriptionsUnsubscribed ==
    [][/\ \A g \in 1..MaxWork :
             Health(g, FALSE) /\ smoldot.isChainReady =>
                /\ \A id \in smoldot.requests :
                      /\ smoldot'.sends[id].state = "rejected"
                      /\ smoldot'.sends[id].error = Disconnected
                /\ \A x \in Range(smoldot.subscriptions) :
                      /\ <<x.type, x.id, Disconnected, FALSE>>
                            \in smoldot'.callbacks
                      /\ [unsubscribeMethod |-> x.unsubscribeMethod,
                          id |-> x.id]
                            \in Range(smoldot'.chains[g].stale)
                /\ smoldot'.subscriptions = <<>>
       /\ \A g \in 1..Len(smoldot.chains) :
             Len(smoldot'.chains[g].stale) >= Len(smoldot.chains[g].stale) - 1
       /\ \A d \in Range(smoldot'.dropped) :
             smoldot'.chains[d.chain].state # "resolved"]_vars

\* C34: #requests holds exactly the ids of the sends that have not settled:
\* a send that resolved or rejected has no entry, and when no send is in
\* flight the table is empty.
C34_RequestsAreSendsInFlight ==
    /\ smoldot.requests \subseteq 1..Len(smoldot.sends)
    /\ \A id \in 1..Len(smoldot.sends) :
          id \in smoldot.requests <=> smoldot.sends[id].state = "in flight"

\* three sends have settled, one resolved by the chain and one rejected by
\* the cleanup, and the table is empty
C34_Witness ==
    /\ Len(smoldot.sends) = 3
    /\ \E id \in 1..3 : smoldot.sends[id].state = "resolved"
    /\ \E id \in 1..3 :
          /\ smoldot.sends[id].state = "rejected"
          /\ smoldot.sends[id].error = Disconnected
    /\ \A id \in 1..3 : smoldot.sends[id].state # "in flight"
    /\ smoldot.requests = {}

\* C35: send and unsubscribe on a provider that is not connected throw
\* "Provider is not connected" and hand nothing to the chain; isConnected is
\* true exactly when #chain is set and the last health report of that chain
\* was ready; after disconnect() isConnected is false.
C35_NotConnectedRefusedAndIsConnectedExact ==
    [][/\ \A method \in {"system_chain"} :
             SmoldotSend(method) /\ ~SmoldotIsConnected(smoldot) =>
                Refused(NotConnected)
       /\ \A c \in UnsubscribeCalls, id \in 1..MaxWork :
             SmoldotUnsubscribe(c[1], c[2], id)
                /\ ~SmoldotIsConnected(smoldot) => Refused(NotConnected)
       /\ SmoldotIsConnected(smoldot') <=>
             /\ smoldot'.chain # 0
             /\ smoldot'.chains[smoldot'.chain].health = "ready"
       /\ DisconnectContinues => ~SmoldotIsConnected(smoldot')]_vars

\* C36: an unsubscribe goes on to send only for a key that is in
\* #subscriptions and has not been unsubscribed before, for any other key it
\* is refused and queues nothing; an unsubscribe that is sent has taken its
\* key out of #subscriptions first, and no callback is called for a key
\* after its unsubscribe.
C36_UnsubscribeRemovesBeforeSending ==
    [][/\ \A t \in (IF smoldot'.waiting = smoldot.waiting
                   THEN Range(smoldot'.micro) ELSE {})
                  \cup {smoldot'.waiting[k] :
                          k \in (Len(smoldot.waiting) + 1)
                                   ..Len(smoldot'.waiting)} :
             t.kind = "unsubscribe" /\ smoldot.micro = <<>> =>
                /\ SubscriptionKey(t.type, t.param)
                      \in SubscriptionKeys(smoldot)
                /\ SubscriptionKey(t.type, t.param)
                      \notin smoldot.unsubscribed
                /\ smoldot'.last = "none"
       /\ smoldot'.last \in {NoActiveSubscription, NotConnected} =>
             /\ smoldot'.sends = smoldot.sends
             /\ smoldot'.micro = smoldot.micro
             /\ smoldot'.waiting = smoldot.waiting
       /\ \A t \in Range(smoldot'.micro) \cup Range(smoldot'.waiting) :
             t.kind = "unsubscribe" =>
                SubscriptionKey(t.type, t.param)
                   \notin SubscriptionKeys(smoldot')
       /\ \A id \in 1..Len(smoldot'.sends) :
             smoldot'.sends[id].kind = "unsubscribe" =>
                SubscriptionKey(smoldot'.sends[id].type,
                                smoldot'.sends[id].param)
                   \notin SubscriptionKeys(smoldot')
       /\ \A cb \in smoldot'.callbacks : ~cb[4]]_vars

\* the unsubscribe of a subscription is on its way to the chain and a second
\* unsubscribe of the same key has just been refused
C36_Witness ==
    /\ smoldot.last = NoActiveSubscription
    /\ \E id \in 1..Len(smoldot.sends) :
          /\ smoldot.sends[id].onWire
          /\ smoldot.sends[id].kind = "unsubscribe"
          /\ smoldot.sends[id].state = "in flight"
          /\ SubscriptionKey(smoldot.sends[id].type, smoldot.sends[id].param)
                \in smoldot.unsubscribed

\* C38: every subscribe method of subscriptionUnsubscriptionMethods is mapped
\* to a method other than itself, and no unsubscribe sent for a stale
\* subscription carries a subscribe method.
C38_UnsubscribeMethodDiffers ==
    /\ \A p \in subscriptionUnsubscriptionMethods : p[2] # p[1]
    /\ \A id \in 1..Len(smoldot.sends) :
          smoldot.sends[id].kind = "kill" =>
             smoldot.sends[id].method \notin SubscribeMethods

\* C37: a call of getExclusiveRandomId whose exclude list does not hold
\* every id of the domain returns, and the id it returns is not in the list.
C37_AllocationTerminates ==
    ((alloc.pc = "loop" /\ Range(alloc.exclude) # getRandomId)
        ~> (alloc.pc = "returned" /\ alloc.id \notin Range(alloc.exclude)))

\* all ids but one are in the list; the call drew an excluded id first and
\* has returned the free one
C37_Witness ==
    /\ alloc.pc = "returned"
    /\ alloc.collided
    /\ Len(alloc.exclude) = AllocDomain - 1
    /\ alloc.id \notin Range(alloc.exclude)

====
